---- MODULE Spec2Model ----
(***************************************************************************)
(* Reddit-MCP: the topic aggregation of the REST server                     *)
(* (web_server.py, get_topic_latest) and of the tool-calling server         *)
(* (reddit_fetcher.py, reddit_topic), the API-key middleware in front of    *)
(* the tool-calling endpoint, the start-up of the two modules, the          *)
(* single-community and single-post operations, the topic map loader and    *)
(* the handlers that call it, the content filters, the per-community        *)
(* fetcher, the sort and cut, and two topic requests in flight together.    *)
(*                                                                          *)
(* Strings are sequences of one-character strings, so that lower(), strip() *)
(* and the substring test `in` are computed and not assumed.                *)
(***************************************************************************)
EXTENDS Integers, Sequences, FiniteSets, TLC

VARIABLES
    pc,               \* position of the topic handler: "idle", "await", "done"
    request,          \* the request being served (surface, topic, limit, max_subreddits)
    topic_mapping,    \* what _load_topic_mapping() returned for this request
    subreddits,       \* the communities selected for the request
    tasks,            \* the fetch tasks created for the request, in creation order
    awaiting,         \* index of the task the handler is awaiting
    seen_titles,      \* the handler's dedup set
    all_posts,        \* the handler's merged list
    response,         \* the handler's answer, <<>> until it has answered
    yielded,          \* number of submissions the external client has yielded
    completed,        \* history: the fetch tasks in the order they finished
    disk,             \* history: the list.txt the handler's loader call found, and
                      \* the place where reading it failed
    topics_response,  \* the answer of /api/topics, <<>> until it has answered
    api_key,          \* MCPApiKeyMiddleware.api_key, a str as code points
    scope,            \* the ASGI scope the middleware was called with, <<>> before
    auth_response,    \* what the middleware did with that scope, <<>> before
    app_calls,        \* number of calls of the wrapped tool-calling application
    env,              \* the process environment at start-up
    entry,            \* the module the process was started with
    boot,             \* position of the start-up
    clients,          \* the modules whose external client has been constructed
    mounted,          \* whether /mcp has been mounted behind the middleware
    served,           \* whether a community-data operation has been served
    d_pc,             \* position of a single-target handler: "idle", "stream", "fetch", "done"
    d_request,        \* the single-target request being served
    d_client,         \* the external client's side of that request
    d_posts,          \* the handler's local list `posts`
    d_response,       \* the handler's answer, <<>> until it has answered
    list_file,        \* the lines of list.txt, <<>> before the loader is called
    lineno,           \* number of lines the loader has read
    current_topic,    \* the loader's current_topic, <<>> for None
    mapping,          \* the loader's local dict topic_mapping
    loaded,           \* <<>> until the loader has returned, then what it returned
                      \* and whether it did so from its except clause
    filter_calls,     \* history: the calls of the content filters and their results
    fetch_pc,         \* position of one _fetch_filtered_posts call: "idle", "loop", "done"
    fetch_surface,    \* the module whose fetcher is running
    fetch_task,       \* the locals of that call
    fetched,          \* history: the submissions the client has yielded to that call
    examined,         \* history: the submissions the filter was applied to
    sorting,          \* <<>>, or the merged list a sort and cut was applied to,
                      \* the limit and the resulting top_posts
    flight            \* the topic requests in flight together in one process,
                      \* each with its own locals

aggState == <<pc, request, topic_mapping, subreddits, tasks, awaiting,
              seen_titles, all_posts, response, yielded>>

histVars == <<completed, disk, topics_response>>

aggVars == <<aggState, histVars>>

authVars == <<api_key, scope, auth_response, app_calls>>

bootVars == <<env, entry, boot, clients, mounted, served>>

directVars == <<d_pc, d_request, d_client, d_posts, d_response>>

loadVars == <<list_file, lineno, current_topic, mapping, loaded>>

filterVars == <<filter_calls>>

fetchVars == <<fetch_pc, fetch_surface, fetch_task, fetched, examined>>

sortVars == <<sorting>>

pairVars == <<flight>>

extVars == <<directVars, loadVars, filterVars, fetchVars, sortVars, pairVars>>

vars == <<aggVars, authVars, bootVars, extVars>>

(***************************************************************************)
(* Bounds of the model.                                                     *)
(***************************************************************************)
MaxLimit == 2        \* largest `limit` a request carries
MaxTopics == 11      \* largest number of topics in the mapping file
MaxYield == 3        \* submissions the external client yields in one aggregation
MaxHeader == 2       \* longest X-API-Key header value, in bytes

(***************************************************************************)
(* Python's str and list primitives.                                        *)
(***************************************************************************)
UpperCase == <<"A", "B", "C", "D", "E", "F", "G", "H", "I", "J", "K", "L", "M",
               "N", "O", "P", "Q", "R", "S", "T", "U", "V", "W", "X", "Y", "Z">>
LowerCase == <<"a", "b", "c", "d", "e", "f", "g", "h", "i", "j", "k", "l", "m",
               "n", "o", "p", "q", "r", "s", "t", "u", "v", "w", "x", "y", "z">>
WhiteSpace == {" ", "\t", "\n"}

LowerChar(c) ==
    IF \E i \in DOMAIN UpperCase : UpperCase[i] = c
    THEN LowerCase[CHOOSE i \in DOMAIN UpperCase : UpperCase[i] = c]
    ELSE c

\* str.lower()
Lower(s) == [i \in 1..Len(s) |-> LowerChar(s[i])]

RECURSIVE LStrip(_)
LStrip(s) == IF s # <<>> /\ Head(s) \in WhiteSpace THEN LStrip(Tail(s)) ELSE s

RECURSIVE RStrip(_)
RStrip(s) ==
    IF s # <<>> /\ s[Len(s)] \in WhiteSpace
    THEN RStrip(SubSeq(s, 1, Len(s) - 1))
    ELSE s

\* str.strip()
Strip(s) == RStrip(LStrip(s))

\* pattern in text
Contains(text, pattern) ==
    \E i \in 1..(Len(text) - Len(pattern) + 1) :
        SubSeq(text, i, i + Len(pattern) - 1) = pattern

Min(a, b) == IF a <= b THEN a ELSE b
Max(a, b) == IF a >= b THEN a ELSE b

\* s[:k], for a negative k as well
Slice(s, k) ==
    IF k >= 0 THEN SubSeq(s, 1, Min(k, Len(s)))
    ELSE SubSeq(s, 1, Max(0, Len(s) + k))

\* the elements of a sequence
Range(s) == {s[i] : i \in DOMAIN s}

(***************************************************************************)
(* Program constants.                                                       *)
(***************************************************************************)
Margin == 5            \* quota = limit // len(subreddits) + 5
FetcherOverFetch == 3  \* reddit_fetcher: count >= limit * 3
WebOverFetch == 2      \* web_server: count >= limit * 2
TopicsListed == 10     \* available_topics[:10]

(***************************************************************************)
(* The submissions the external client can yield.  created_at is <<>> for   *)
(* a submission without a creation time, <<t>> otherwise.                   *)
(***************************************************************************)
Submissions ==
    { [kind |-> "text", title |-> <<"H", "i">>,
       permalink |-> <<"/", "r", "/", "a", "/", "1">>,
       url |-> <<>>, domain |-> <<>>, created_at |-> <<2>>],
      [kind |-> "text", title |-> <<" ", "h", "i">>,
       permalink |-> <<"/", "r", "/", "a", "/", "2">>,
       url |-> <<>>, domain |-> <<>>, created_at |-> <<1>>],
      [kind |-> "link", title |-> <<"B">>,
       permalink |-> <<"/", "r", "/", "a", "/", "3">>,
       url |-> <<"h", "t", "t", "p", ":", "/", "/", "b", "b", "c", ".", "c", "o", "m",
                 "/", "s", "c", "a", "m">>,
       domain |-> <<"b", "b", "c", ".", "c", "o", "m">>, created_at |-> <<3>>],
      [kind |-> "gallery", title |-> <<"C">>,
       permalink |-> <<"/", "r", "/", "a", "/", "4">>,
       url |-> <<>>, domain |-> <<>>, created_at |-> <<>>] }

(***************************************************************************)
(* Content filters.                                                         *)
(***************************************************************************)
spam_patterns ==
    { <<"s", "p", "a", "m">>,
      <<"c", "a", "s", "i", "n", "o">>,
      <<"g", "a", "m", "b", "l", "i", "n", "g">>,
      <<"p", "o", "r", "n">>,
      <<"x", "x", "x">>,
      <<"a", "d", "u", "l", "t">>,
      <<"m", "a", "l", "w", "a", "r", "e">>,
      <<"p", "h", "i", "s", "h", "i", "n", "g">>,
      <<"s", "c", "a", "m">> }

readable_patterns ==
    { <<"n", "e", "w", "s">>,
      <<"a", "r", "t", "i", "c", "l", "e">>,
      <<"b", "l", "o", "g">>,
      <<"m", "e", "d", "i", "u", "m", ".", "c", "o", "m">>,
      <<"a", "r", "x", "i", "v", ".", "o", "r", "g">>,
      <<"g", "i", "t", "h", "u", "b", ".", "c", "o", "m">>,
      <<"t", "e", "c", "h", "c", "r", "u", "n", "c", "h", ".", "c", "o", "m">>,
      <<"t", "h", "e", "v", "e", "r", "g", "e", ".", "c", "o", "m">>,
      <<"a", "r", "s", "t", "e", "c", "h", "n", "i", "c", "a", ".", "c", "o", "m">>,
      <<"w", "i", "r", "e", "d", ".", "c", "o", "m">>,
      <<"r", "e", "u", "t", "e", "r", "s", ".", "c", "o", "m">>,
      <<"b", "b", "c", ".", "c", "o", "m">>,
      <<"c", "n", "n", ".", "c", "o", "m">>,
      <<"n", "p", "r", ".", "o", "r", "g">>,
      <<"n", "y", "t", "i", "m", "e", "s", ".", "c", "o", "m">>,
      <<"w", "a", "s", "h", "i", "n", "g", "t", "o", "n", "p", "o", "s", "t", ".", "c", "o", "m">>,
      <<"g", "u", "a", "r", "d", "i", "a", "n", ".", "c", "o", "m">>,
      <<"e", "c", "o", "n", "o", "m", "i", "s", "t", ".", "c", "o", "m">> }

image_video_patterns ==
    { <<"j", "p", "g">>,
      <<"j", "p", "e", "g">>,
      <<"p", "n", "g">>,
      <<"g", "i", "f">>,
      <<"w", "e", "b", "p">>,
      <<"m", "p", "4">>,
      <<"w", "e", "b", "m">>,
      <<"y", "o", "u", "t", "u", "b", "e", ".", "c", "o", "m">>,
      <<"y", "o", "u", "t", "u", ".", "b", "e">>,
      <<"t", "i", "k", "t", "o", "k", ".", "c", "o", "m">>,
      <<"i", "n", "s", "t", "a", "g", "r", "a", "m", ".", "c", "o", "m">>,
      <<"i", "m", "g", "u", "r", ".", "c", "o", "m">>,
      <<"v", ".", "r", "e", "d", "d", ".", "i", "t">>,
      <<"i", ".", "r", "e", "d", "d", ".", "i", "t">>,
      <<"g", "f", "y", "c", "a", "t", ".", "c", "o", "m">>,
      <<"s", "t", "r", "e", "a", "m", "a", "b", "l", "e", ".", "c", "o", "m">> }

discussion_words ==
    { <<"d", "i", "s", "c", "u", "s", "s", "i", "o", "n">>,
      <<"q", "u", "e", "s", "t", "i", "o", "n">>,
      <<"a", "s", "k">>,
      <<"h", "e", "l", "p">>,
      <<"t", "h", "o", "u", "g", "h", "t", "s">>,
      <<"o", "p", "i", "n", "i", "o", "n">>,
      <<"a", "n", "a", "l", "y", "s", "i", "s">>,
      <<"r", "e", "v", "i", "e", "w">> }

\* reddit_fetcher._is_readable_content
fetcher_is_readable_content(submission) ==
    IF submission.kind = "text" THEN TRUE
    ELSE IF submission.kind = "link"
    THEN LET url == Lower(submission.url)
             domain == Lower(submission.domain)
             content_text == url \o <<" ">> \o domain
         IN  ~ \E pattern \in spam_patterns : Contains(content_text, pattern)
    ELSE TRUE

\* web_server._is_readable_content
web_is_readable_content(submission) ==
    IF submission.kind = "text" THEN TRUE
    ELSE IF submission.kind = "link"
    THEN LET url == Lower(submission.permalink)
             domain == Lower(submission.domain)
             content_text == Lower(url \o <<" ">> \o domain)
             title == Lower(submission.title)
         IN  IF \E pattern \in image_video_patterns : Contains(content_text, pattern)
             THEN FALSE
             ELSE IF \E pattern \in readable_patterns : Contains(content_text, pattern)
             THEN TRUE
             ELSE \E word \in discussion_words : Contains(title, word)
    ELSE FALSE

_get_post_type(submission) ==
    IF submission.kind \in {"link", "text", "gallery"} THEN submission.kind
    ELSE "unknown"

(***************************************************************************)
(* Topic map: an insertion-ordered dict, as a sequence of entries with      *)
(* distinct topics.  The loader appends whatever the file lists, so a       *)
(* community may occur more than once in a topic's list.                    *)
(***************************************************************************)
SubLists == {<<>>, <<"a">>, <<"a", "b">>, <<"a", "a">>}

\* a map of n topics, the first of them with the communities subs
TopicMap(n, subs) ==
    [i \in 1..n |-> [topic |-> i, subs |-> IF i = 1 THEN subs ELSE <<>>]]

\* the maps a request can find: one topic with every community list, and
\* every number of topics without communities
TopicMaps ==
    {TopicMap(1, subs) : subs \in SubLists} \cup {TopicMap(n, <<>>) : n \in 0..MaxTopics}

\* list(topic_mapping.keys())
Keys(m) == [i \in DOMAIN m |-> m[i].topic]

\* topic_mapping[topic]
Lookup(m, topic) == m[CHOOSE i \in DOMAIN m : m[i].topic = topic].subs

(***************************************************************************)
(* Per-community fetcher: one step of the `async for` loop of               *)
(* _fetch_filtered_posts, on the submission the client yielded.             *)
(***************************************************************************)
is_readable_content(surface, submission) ==
    IF surface = "tool" THEN fetcher_is_readable_content(submission)
    ELSE web_is_readable_content(submission)

\* mutant of OverFetch: the two modules' factors are exchanged
OverFetch_swapped(surface) ==
    IF surface = "tool" THEN WebOverFetch ELSE FetcherOverFetch

OverFetch(surface) == IF surface = "tool" THEN FetcherOverFetch ELSE WebOverFetch

\* mutant of post_data: web_server's dict carries the fields of reddit_fetcher's
post_data_timed(surface, submission) ==
    [title |-> submission.title,
     type |-> _get_post_type(submission),
     permalink |-> submission.permalink,
     created_utc |-> IF submission.created_at # <<>>
                     THEN submission.created_at[1] ELSE 0,
     url |-> submission.url,
     domain |-> submission.domain,
     is_self |-> submission.kind = "text"]

\* the dict built for an accepted submission: reddit_fetcher's carries the
\* creation time, url, domain and is_self, web_server's does not
post_data(surface, submission) ==
    IF surface = "tool"
    THEN [title |-> submission.title,
          type |-> _get_post_type(submission),
          permalink |-> submission.permalink,
          created_utc |-> IF submission.created_at # <<>>
                          THEN submission.created_at[1] ELSE 0,
          url |-> submission.url,
          domain |-> submission.domain,
          is_self |-> submission.kind = "text"]
    ELSE [title |-> submission.title,
          type |-> _get_post_type(submission),
          permalink |-> submission.permalink]

NewTask(subreddit, limit) ==
    [subreddit |-> subreddit, limit |-> limit, count |-> 0, posts |-> <<>>,
     state |-> "running", failed |-> FALSE]

fetch_step(surface, t, submission) ==
    IF t.count >= t.limit * OverFetch(surface)
    THEN [t EXCEPT !.state = "done"]
    ELSE IF is_readable_content(surface, submission)
    THEN LET posts == Append(t.posts, post_data(surface, submission))
         IN  IF Len(posts) >= t.limit
             THEN [t EXCEPT !.posts = posts, !.state = "done"]
             ELSE [t EXCEPT !.posts = posts, !.count = @ + 1]
    ELSE [t EXCEPT !.count = @ + 1]

\* mutant of fetch_except: what was collected is dropped
fetch_except_drop(t) == [t EXCEPT !.state = "done", !.failed = TRUE, !.posts = <<>>]

\* except Exception as e: logging.warning(...); return posts
fetch_except(t) == [t EXCEPT !.state = "done", !.failed = TRUE]

(***************************************************************************)
(* Topic aggregator: select, merge, sort, truncate, answer.                 *)
(***************************************************************************)
\* mutants of Select: the max_subreddits cut is forgotten; the cut is one short
SelectAll(all_topic_subreddits, max_subreddits) == all_topic_subreddits

SelectShort(all_topic_subreddits, max_subreddits) ==
    Slice(all_topic_subreddits, max_subreddits - 1)

\* subreddits = all if max_subreddits >= len(all) else all[:max_subreddits]
Select(all_topic_subreddits, max_subreddits) ==
    IF max_subreddits >= Len(all_topic_subreddits)
    THEN all_topic_subreddits
    ELSE Slice(all_topic_subreddits, max_subreddits)

\* limit // len(subreddits) + 5
Quota(limit, n) == (limit \div n) + Margin

\* mutant of title_key: the title is not lowercased
title_key_raw(post) == Strip(post.title)

\* post['title'].lower().strip()
title_key(post) == Strip(Lower(post.title))

\* post.get(key, default)
dict_get(post, key, default) ==
    IF key \in DOMAIN post THEN post[key] ELSE default

\* post.get('created_utc', 0)
get_created_utc(post) ==
    IF "created_utc" \in DOMAIN post THEN post.created_utc ELSE 0

\* the element appended to all_posts for a post that survives dedup:
\* web_server builds a TopicPost with defaults for the keys the dict lacks,
\* reddit_fetcher appends the dict itself with source_subreddit set
merged_post(post, subreddit) ==
    [title |-> post.title,
     type |-> post.type,
     permalink |-> post.permalink,
     source_subreddit |-> subreddit,
     created_utc |-> get_created_utc(post),
     url |-> dict_get(post, "url", <<>>),
     domain |-> dict_get(post, "domain", <<>>),
     is_self |-> dict_get(post, "is_self", FALSE)]

\* mutant of merge_posts: a later post replaces the one with the same key
RECURSIVE merge_posts_last(_, _, _)
merge_posts_last(posts, subreddit, acc) ==
    IF posts = <<>> THEN acc
    ELSE LET post == Head(posts)
             key == title_key(post)
             next == IF key \notin acc.seen
                     THEN [seen |-> acc.seen \cup {key},
                           all |-> Append(acc.all, merged_post(post, subreddit))]
                     ELSE [seen |-> acc.seen,
                           all |-> [k \in DOMAIN acc.all |->
                                       IF title_key(acc.all[k]) = key
                                       THEN merged_post(post, subreddit)
                                       ELSE acc.all[k]]]
         IN  merge_posts_last(Tail(posts), subreddit, next)

\* the `for post in posts` loop over the result of one task
RECURSIVE merge_posts(_, _, _)
merge_posts(posts, subreddit, acc) ==
    IF posts = <<>> THEN acc
    ELSE LET post == Head(posts)
             key == title_key(post)
             next == IF key \notin acc.seen
                     THEN [seen |-> acc.seen \cup {key},
                           all |-> Append(acc.all, merged_post(post, subreddit))]
                     ELSE acc
         IN  merge_posts(Tail(posts), subreddit, next)

\* mutant of await_tasks: the loop is left at a task whose fetch failed
RECURSIVE await_tasks_break(_, _, _)
await_tasks_break(ts, i, acc) ==
    IF i > Len(ts) \/ ts[i].state # "done"
    THEN [awaiting |-> i, seen |-> acc.seen, all |-> acc.all]
    ELSE IF ts[i].failed
    THEN [awaiting |-> Len(ts) + 1, seen |-> acc.seen, all |-> acc.all]
    ELSE await_tasks_break(ts, i + 1, merge_posts(ts[i].posts, ts[i].subreddit, acc))

\* mutant of await_tasks: of the finished tasks, the later is merged first
RECURSIVE await_tasks_reverse(_, _, _)
await_tasks_reverse(ts, i, acc) ==
    IF i > Len(ts) \/ ts[i].state # "done"
    THEN [awaiting |-> i, seen |-> acc.seen, all |-> acc.all]
    ELSE LET r == await_tasks_reverse(ts, i + 1, acc)
             mm == merge_posts(ts[i].posts, ts[i].subreddit,
                               [seen |-> r.seen, all |-> r.all])
         IN  [awaiting |-> r.awaiting, seen |-> mm.seen, all |-> mm.all]

\* mutant of await_tasks: a task is merged whether it has finished or not
RECURSIVE await_tasks_eager(_, _, _)
await_tasks_eager(ts, i, acc) ==
    IF i > Len(ts)
    THEN [awaiting |-> i, seen |-> acc.seen, all |-> acc.all]
    ELSE await_tasks_eager(ts, i + 1, merge_posts(ts[i].posts, ts[i].subreddit, acc))

\* the `for subreddit, task in tasks` loop from task i on, as far as it runs
\* without suspending: awaiting a finished task does not suspend
RECURSIVE await_tasks(_, _, _)
await_tasks(ts, i, acc) ==
    IF i > Len(ts) \/ ts[i].state # "done"
    THEN [awaiting |-> i, seen |-> acc.seen, all |-> acc.all]
    ELSE await_tasks(ts, i + 1, merge_posts(ts[i].posts, ts[i].subreddit, acc))

\* mutant of InsertDesc: a post goes in front of the posts with an equal key
RECURSIVE InsertDesc_unstable(_, _)
InsertDesc_unstable(sorted, p) ==
    IF sorted = <<>> THEN <<p>>
    ELSE IF Head(sorted).created_utc > p.created_utc
    THEN <<Head(sorted)>> \o InsertDesc_unstable(Tail(sorted), p)
    ELSE <<p>> \o sorted

\* list.sort(key=created_utc, reverse=True): stable
RECURSIVE InsertDesc(_, _)
InsertDesc(sorted, p) ==
    IF sorted = <<>> THEN <<p>>
    ELSE IF Head(sorted).created_utc >= p.created_utc
    THEN <<Head(sorted)>> \o InsertDesc(Tail(sorted), p)
    ELSE <<p>> \o sorted

\* mutant of SortDesc: the list is left in merge order
SortNone(s) == s

RECURSIVE SortDesc(_)
SortDesc(s) ==
    IF s = <<>> THEN <<>>
    ELSE InsertDesc(SortDesc(SubSeq(s, 1, Len(s) - 1)), s[Len(s)])

\* mutant of top_posts: the sorted list is not truncated
top_posts_all(all, limit) == SortDesc(all)

\* all_posts.sort(...); top_posts = all_posts[:limit]
top_posts(all, limit) == Slice(SortDesc(all), limit)

\* len(set(p['source_subreddit'] for p in top_posts))
Contributing(posts) == Cardinality({posts[i].source_subreddit : i \in DOMAIN posts})

NoResponse == <<>>

\* what reddit_topic returns once the merge is over
tool_result(all, limit) ==
    LET top == top_posts(all, limit)
    IN  IF top = <<>>
        THEN [status |-> "text", kind |-> "no_content", posts |-> <<>>,
              subreddits_queried |-> <<>>, contributing |-> <<>>, listed |-> <<>>]
        ELSE [status |-> "text", kind |-> "posts", posts |-> top,
              subreddits_queried |-> <<>>, contributing |-> <<Contributing(top)>>,
              listed |-> <<>>]

\* what get_topic_latest returns once the merge is over
rest_result(all, limit, subs) ==
    LET top == top_posts(all, limit)
    IN  [status |-> "200", kind |-> "posts", posts |-> top,
         subreddits_queried |-> <<Len(subs)>>, contributing |-> <<>>,
         listed |-> <<>>]

result(surface, all, limit, subs) ==
    IF surface = "tool" THEN tool_result(all, limit)
    ELSE rest_result(all, limit, subs)

\* mutant of rest_except: the `except HTTPException: raise` clause is missing
rest_except_all(exc) == "500"

\* the except clauses of get_topic_latest: an HTTPException passes unchanged,
\* any other exception becomes a 500
rest_except(exc) ==
    IF exc.type = "HTTPException" THEN exc.status ELSE "500"

\* the answer to a topic that is not a key of the map
unknown_topic(surface, m) ==
    LET available_topics == Keys(m)
        listed == Slice(available_topics, TopicsListed)
    IN  [status |-> IF surface = "tool" THEN "text"
                    ELSE rest_except([type |-> "HTTPException", status |-> "400"]),
         kind |-> "unknown_topic", posts |-> <<>>,
         subreddits_queried |-> <<>>, contributing |-> <<>>, listed |-> listed]

(***************************************************************************)
(* The handler of a topic request and its fetch tasks.                      *)
(***************************************************************************)
Surfaces == {"rest", "tool"}
\* the limits a request carries: zero, one and the largest
Limits == {0, 1, MaxLimit}
MaxSubredditsValues == -1..2
RequestedTopics == {1, MaxTopics + 1}

AggInit ==
    /\ pc = "idle"
    /\ request = <<>>
    /\ topic_mapping = <<>>
    /\ subreddits = <<>>
    /\ tasks = <<>>
    /\ awaiting = 0
    /\ seen_titles = {}
    /\ all_posts = <<>>
    /\ response = NoResponse
    /\ yielded = 0
    /\ completed = <<>>
    /\ disk = <<>>
    /\ topics_response = <<>>

\* get_topic_latest / reddit_topic from the call to the first suspension:
\* load the map, resolve the topic, select, create every task, and either
\* answer at once (unknown topic, nothing selected) or suspend in `await task`.
Request(surface, topic, limit, max_subreddits, m) ==
    /\ pc = "idle"
    /\ request' = [surface |-> surface, topic |-> topic, limit |-> limit,
                   max_subreddits |-> max_subreddits]
    /\ topic_mapping' = m
    /\ yielded' = yielded
    /\ UNCHANGED <<authVars, bootVars, extVars>>
    /\ IF topic \notin Range(Keys(m))
       THEN /\ response' = unknown_topic(surface, m)
            /\ pc' = "done"
            /\ UNCHANGED <<subreddits, tasks, awaiting, seen_titles, all_posts>>
       ELSE LET subs == Select(Lookup(m, topic), max_subreddits)
                created == [i \in 1..Len(subs) |->
                               NewTask(subs[i], Quota(limit, Len(subs)))]
            IN  /\ subreddits' = subs
                /\ tasks' = created
                /\ seen_titles' = {}
                /\ all_posts' = <<>>
                /\ IF subs = <<>>
                   THEN /\ awaiting' = 1
                        /\ response' = result(surface, <<>>, limit, subs)
                        /\ pc' = "done"
                   ELSE /\ awaiting' = 1
                        /\ response' = NoResponse
                        /\ pc' = "await"

\* the external client yields the next submission of task i's hot listing
TaskYield(i, submission) ==
    /\ tasks[i].state = "running"
    /\ yielded < MaxYield
    /\ yielded' = yielded + 1
    /\ tasks' = [tasks EXCEPT ![i] = fetch_step(request.surface, @, submission)]
    /\ UNCHANGED <<pc, request, topic_mapping, subreddits, awaiting,
                   seen_titles, all_posts, response, authVars, bootVars, extVars>>

\* the hot listing of task i is exhausted: the loop ends, the posts are returned
TaskExhaust(i) ==
    /\ tasks[i].state = "running"
    /\ tasks' = [tasks EXCEPT ![i].state = "done"]
    /\ UNCHANGED <<pc, request, topic_mapping, subreddits, awaiting,
                   seen_titles, all_posts, response, yielded, authVars, bootVars, extVars>>

\* the external client raises in task i: logged, the posts so far are returned
TaskRaise(i) ==
    /\ tasks[i].state = "running"
    /\ tasks' = [tasks EXCEPT ![i] = fetch_except(@)]
    /\ UNCHANGED <<pc, request, topic_mapping, subreddits, awaiting,
                   seen_titles, all_posts, response, yielded, authVars, bootVars, extVars>>

\* the awaited task has finished: the handler resumes, merges the result of
\* that task and of every following task that has finished too, and either
\* suspends on the next unfinished task or sorts, truncates and answers
Resume ==
    /\ pc = "await"
    /\ tasks[awaiting].state = "done"
    /\ LET r == await_tasks(tasks, awaiting,
                            [seen |-> seen_titles, all |-> all_posts])
       IN  /\ awaiting' = r.awaiting
           /\ seen_titles' = r.seen
           /\ all_posts' = r.all
           /\ IF r.awaiting > Len(tasks)
              THEN /\ response' = result(request.surface, r.all, request.limit,
                                         subreddits)
                   /\ pc' = "done"
              ELSE /\ response' = NoResponse
                   /\ pc' = "await"
    /\ UNCHANGED <<request, topic_mapping, subreddits, tasks, yielded,
                   authVars, bootVars, extVars>>

\* every request, without the history of the order in which tasks finish
AggNext ==
    \/ \E surface \in Surfaces, topic \in RequestedTopics, limit \in Limits,
          max_subreddits \in MaxSubredditsValues, m \in TopicMaps :
            Request(surface, topic, limit, max_subreddits, m) /\ UNCHANGED histVars
    \/ \E i \in DOMAIN tasks, submission \in Submissions :
            TaskYield(i, submission) /\ UNCHANGED histVars
    \/ \E i \in DOMAIN tasks : TaskExhaust(i) /\ UNCHANGED histVars
    \/ \E i \in DOMAIN tasks : TaskRaise(i) /\ UNCHANGED histVars
    \/ Resume /\ UNCHANGED histVars

\* task i finishes in this step
Finishes(i) == tasks[i].state = "running" /\ tasks'[i].state = "done"

\* a request for a topic of two communities, both selected, with the history
\* of the order in which its two tasks finish
OrderNext ==
    \/ \E surface \in Surfaces :
            /\ Request(surface, 1, MaxLimit, 2, TopicMap(1, <<"a", "b">>))
            /\ completed' = <<>>
            /\ UNCHANGED <<disk, topics_response>>
    \/ \E i \in DOMAIN tasks, submission \in Submissions :
            /\ TaskYield(i, submission)
            /\ completed' = IF Finishes(i) THEN Append(completed, i) ELSE completed
            /\ UNCHANGED <<disk, topics_response>>
    \/ \E i \in DOMAIN tasks :
            /\ TaskExhaust(i)
            /\ completed' = Append(completed, i)
            /\ UNCHANGED <<disk, topics_response>>
    \/ \E i \in DOMAIN tasks :
            /\ TaskRaise(i)
            /\ completed' = Append(completed, i)
            /\ UNCHANGED <<disk, topics_response>>
    \/ Resume /\ UNCHANGED histVars

(***************************************************************************)
(* MCPApiKeyMiddleware in front of the tool-calling application.            *)
(* A header value is a sequence of bytes, a str a sequence of code points.  *)
(***************************************************************************)
\* the bytes a header value is made of: "k", "x", the two bytes of the UTF-8
\* form of U+00E9, and a byte that occurs in no UTF-8 text
HeaderBytes == {107, 120, 195, 169, 255}

HeaderValues == UNION {[1..n -> HeaderBytes] : n \in 0..MaxHeader}

\* the headers of a request: no X-API-Key header, or one with some value
Headers == {<<>>} \cup {<<v>> : v \in HeaderValues}

\* the keys the server can be configured with: "k", "kx" and U+00E9
ApiKeys == {<<107>>, <<107, 120>>, <<233>>}

ScopeTypes == {"http", "websocket"}

DecodeError == <<-1>>

\* bytes.decode("utf-8") for one- and two-byte forms (the bytes that start a
\* longer form are not among HeaderBytes); DecodeError for UnicodeDecodeError
RECURSIVE decode_utf8(_)
decode_utf8(bs) ==
    IF bs = <<>> THEN <<>>
    ELSE IF bs[1] < 128
    THEN LET rest == decode_utf8(Tail(bs))
         IN  IF rest = DecodeError THEN DecodeError ELSE <<bs[1]>> \o rest
    ELSE IF bs[1] >= 194 /\ bs[1] <= 223 /\ Len(bs) >= 2
            /\ bs[2] >= 128 /\ bs[2] <= 191
    THEN LET rest == decode_utf8(Tail(Tail(bs)))
         IN  IF rest = DecodeError THEN DecodeError
             ELSE <<(bs[1] - 192) * 64 + (bs[2] - 128)>> \o rest
    ELSE DecodeError

IsAscii(str) == \A i \in DOMAIN str : str[i] < 128

\* secrets.compare_digest(a, b) on two str: TypeError unless both are ASCII
compare_digest(a, b) ==
    IF IsAscii(a) /\ IsAscii(b) THEN [raised |-> FALSE, equal |-> a = b]
    ELSE [raised |-> TRUE, equal |-> FALSE]

\* headers.get(b"x-api-key", b"")
get_api_key_header(headers) == IF headers = <<>> THEN <<>> ELSE headers[1]

\* MCPApiKeyMiddleware.__call__: "401" is the middleware's own response,
\* "app" the call of the wrapped application, "exception" an exception that
\* leaves the middleware
middleware_call(key, sc) ==
    IF sc.type = "http"
    THEN LET api_key_header == decode_utf8(get_api_key_header(sc.headers))
         IN  IF api_key_header = DecodeError
             THEN [outcome |-> "exception", status |-> "500", body |-> "none"]
             ELSE IF api_key_header = <<>>
             THEN [outcome |-> "401", status |-> "401", body |-> "json_error"]
             ELSE LET cmp == compare_digest(api_key_header, key)
                  IN  IF cmp.raised
                      THEN [outcome |-> "exception", status |-> "500", body |-> "none"]
                      ELSE IF ~ cmp.equal
                      THEN [outcome |-> "401", status |-> "401", body |-> "json_error"]
                      ELSE [outcome |-> "app", status |-> "app", body |-> "app"]
    ELSE [outcome |-> "app", status |-> "app", body |-> "app"]

AuthIdle ==
    /\ scope = <<>>
    /\ auth_response = <<>>
    /\ app_calls = 0

AuthInit ==
    /\ api_key \in ApiKeys
    /\ AuthIdle

\* one request to the mounted endpoint, from the call of the middleware to
\* its return
McpRequest(type, headers) ==
    /\ scope = <<>>
    /\ LET sc == [type |-> type, headers |-> headers]
           r == middleware_call(api_key, sc)
       IN  /\ scope' = sc
           /\ auth_response' = r
           /\ app_calls' = IF r.outcome = "app" THEN app_calls + 1 ELSE app_calls
    /\ UNCHANGED <<api_key, aggVars, bootVars, extVars>>

\* the connection is closed; the next request can come
McpClose ==
    /\ scope # <<>>
    /\ scope' = <<>>
    /\ auth_response' = <<>>
    /\ app_calls' = 0
    /\ UNCHANGED <<api_key, aggVars, bootVars, extVars>>

AuthNext ==
    \/ \E type \in ScopeTypes, headers \in Headers : McpRequest(type, headers)
    \/ McpClose

(***************************************************************************)
(* Start-up: the module bodies of reddit_fetcher.py and web_server.py.      *)
(* An environment variable is <<>> when unset and <<value>> when set.       *)
(***************************************************************************)
EnvValues == {<<>>, << <<>> >>, << <<"v">> >>}

Envs ==
    [REDDIT_CLIENT_ID : EnvValues, REDDIT_CLIENT_SECRET : EnvValues,
     REDDIT_REFRESH_TOKEN : EnvValues, MCP_API_KEY : EnvValues]

Entries == {"web_server", "reddit_fetcher"}

\* Python truth of os.getenv(...): neither None nor ""
Truthy(x) == x # <<>> /\ x[1] # <<>>

\* CREDS = [x for x in [ID, SECRET, TOKEN] if x]
CREDS(e) ==
    SelectSeq(<<e.REDDIT_CLIENT_ID, e.REDDIT_CLIENT_SECRET, e.REDDIT_REFRESH_TOKEN>>,
              Truthy)

\* web_server: if not CREDS: raise ValueError(...)
web_creds_check(creds) == IF creds = <<>> THEN "ValueError" ELSE "ok"

\* reddit_fetcher has no such check between CREDS and Client(*CREDS)
fetcher_creds_check(creds) == "ok"

\* web_server: if MCP_API_KEY and mcp_http_app is not None: app.mount("/mcp", ...)
mount_mcp(e) ==
    LET mcp_http_app == IF Truthy(e.MCP_API_KEY) THEN <<"app">> ELSE <<>>
    IN  Truthy(e.MCP_API_KEY) /\ mcp_http_app # <<>>

\* the tools /mcp-info lists when it reports the endpoint enabled
tools_available ==
    <<"reddit_topic", "reddit_hot", "reddit_post", "reddit_front", "reddit_top",
      "reddit_new", "reddit_rising", "reddit_info">>

\* GET /mcp-info: mcp_enabled = MCP_API_KEY is not None
mcp_info(e) ==
    LET mcp_enabled == e.MCP_API_KEY # <<>>
    IN  [mcp_enabled |-> mcp_enabled,
         endpoint |-> IF mcp_enabled THEN <<"/mcp">> ELSE <<>>,
         tools_available |-> IF mcp_enabled THEN tools_available ELSE <<>>]

\* GET /: "/mcp" if MCP_API_KEY else "(disabled - set MCP_API_KEY)"
root(e) ==
    [streamable_http |-> IF Truthy(e.MCP_API_KEY) THEN "/mcp"
                         ELSE "(disabled - set MCP_API_KEY)",
     copilot_studio_mcp |-> IF Truthy(e.MCP_API_KEY)
                            THEN "Use /mcp endpoint with X-API-Key header"
                            ELSE "Disabled"]

BootInit ==
    /\ env \in Envs
    /\ entry \in Entries
    /\ boot = "start"
    /\ clients = {}
    /\ mounted = FALSE
    /\ served = FALSE

\* the body of reddit_fetcher.py, run when the module is the entry point and
\* when web_server.py imports it; client_ok is whether the library's
\* Client(*CREDS) returns (it is the library that decides)
ImportFetcher(client_ok) ==
    /\ boot = "start"
    /\ IF fetcher_creds_check(CREDS(env)) # "ok" \/ ~ client_ok
       THEN /\ boot' = "failed"
            /\ clients' = clients
       ELSE /\ clients' = clients \cup {"reddit_fetcher"}
            /\ boot' = IF entry = "reddit_fetcher" THEN "serving" ELSE "web_body"
    /\ UNCHANGED <<env, entry, mounted, served, aggVars, authVars, extVars>>

\* the body of web_server.py after the import of reddit_fetcher
WebBody(client_ok) ==
    /\ boot = "web_body"
    /\ IF web_creds_check(CREDS(env)) # "ok" \/ ~ client_ok
       THEN /\ boot' = "failed"
            /\ UNCHANGED <<clients, mounted>>
       ELSE /\ clients' = clients \cup {"web_server"}
            /\ mounted' = mount_mcp(env)
            /\ boot' = "serving"
    /\ UNCHANGED <<env, entry, served, aggVars, authVars, extVars>>

\* the started process serves a community-data operation
Serve ==
    /\ boot = "serving"
    /\ ~ served
    /\ served' = TRUE
    /\ UNCHANGED <<env, entry, boot, clients, mounted, aggVars, authVars, extVars>>

BootNext ==
    \/ \E client_ok \in BOOLEAN : ImportFetcher(client_ok)
    \/ \E client_ok \in BOOLEAN : WebBody(client_ok)
    \/ Serve

(***************************************************************************)
(* Single-community and single-post operations: hot, top, new, rising,      *)
(* front page, post with comments, community info, on both surfaces.        *)
(* A listing operation hands `limit` to the external client as the amount   *)
(* to pull and keeps every submission the client's iterator yields; the     *)
(* handlers never truncate.  The client is the library's: one that honours  *)
(* the amount yields min(amount, N) of the N submissions of the listing,    *)
(* one that does not (a fixed stub) yields all N.                           *)
(***************************************************************************)
MaxListing == 3      \* longest listing the external client holds

\* "https://reddit.com"
reddit_url ==
    <<"h", "t", "t", "p", "s", ":", "/", "/", "r", "e", "d", "d", "i", "t",
      ".", "c", "o", "m">>

\* "An error occurred: "
tool_error_prefix ==
    <<"A", "n", " ", "e", "r", "r", "o", "r", " ", "o", "c", "c", "u", "r",
      "r", "e", "d", ":", " ">>

\* the prefix of the detail of a REST 500, by endpoint
rest_error_prefix(op) ==
    CASE op = "hot" -> <<"E", "r", "r", "o", "r", " ", "f", "e", "t", "c", "h", "i", "n", "g", " ", "h", "o", "t", " ", "t", "h", "r", "e", "a", "d", "s", ":", " ">>
      [] op = "post" -> <<"E", "r", "r", "o", "r", " ", "f", "e", "t", "c", "h", "i", "n", "g", " ", "p", "o", "s", "t", " ", "c", "o", "n", "t", "e", "n", "t", ":", " ">>
      [] op = "front" -> <<"E", "r", "r", "o", "r", " ", "f", "e", "t", "c", "h", "i", "n", "g", " ", "f", "r", "o", "n", "t", " ", "p", "a", "g", "e", " ", "p", "o", "s", "t", "s", ":", " ">>
      [] op = "top" -> <<"E", "r", "r", "o", "r", " ", "f", "e", "t", "c", "h", "i", "n", "g", " ", "s", "u", "b", "r", "e", "d", "d", "i", "t", " ", "p", "o", "s", "t", "s", " ", "b", "y", " ", "t", "i", "m", "e", ":", " ">>
      [] op = "new" -> <<"E", "r", "r", "o", "r", " ", "f", "e", "t", "c", "h", "i", "n", "g", " ", "s", "u", "b", "r", "e", "d", "d", "i", "t", " ", "n", "e", "w", " ", "p", "o", "s", "t", "s", ":", " ">>
      [] op = "rising" -> <<"E", "r", "r", "o", "r", " ", "f", "e", "t", "c", "h", "i", "n", "g", " ", "s", "u", "b", "r", "e", "d", "d", "i", "t", " ", "r", "i", "s", "i", "n", "g", " ", "p", "o", "s", "t", "s", ":", " ">>
      [] op = "info" -> <<"E", "r", "r", "o", "r", " ", "f", "e", "t", "c", "h", "i", "n", "g", " ", "s", "u", "b", "r", "e", "d", "d", "i", "t", " ", "i", "n", "f", "o", ":", " ">>

\* str(e) of the exceptions the external client raises
ErrorMessages == {<<"5", "0", "3">>, <<"n", "o">>}

ListingOps == {"hot", "front", "top", "new", "rising"}
FetchOps == {"post", "info"}
DirectOps == ListingOps \cup FetchOps
DirectLimits == 0..MaxLimit
Sorts == {"hot", "top", "new", "best"}

\* two orders of the submissions the client can hold
ListingOrders ==
    LET hi == CHOOSE s \in Submissions : s.created_at = <<2>>
        hi2 == CHOOSE s \in Submissions : s.created_at = <<1>>
        b == CHOOSE s \in Submissions : s.created_at = <<3>>
        c == CHOOSE s \in Submissions : s.created_at = <<>>
    IN  {<<hi, b, c, hi2>>, <<c, hi2, b, hi>>}

Listings ==
    {SubSeq(order, 1, n) : order \in ListingOrders, n \in 0..Min(MaxListing, 4)}

\* RedditPost(...) / _create_reddit_post / _format_post_info: the fields of a
\* post of a listing answer; link=f"https://reddit.com{submission.permalink}"
RedditPost(submission) ==
    [title |-> submission.title,
     post_type |-> _get_post_type(submission),
     link |-> reddit_url \o submission.permalink]

\* the number of submissions the client's iterator yields for pull.<op>(.., amount)
pull(client, amount) ==
    IF client.honours THEN Min(amount, Len(client.listing))
    ELSE Len(client.listing)

NoDetail == <<>>

\* the return after the loop (listing operations) or after the fetches
direct_result(surface, op, listed) ==
    [status |-> IF surface = "rest" THEN "200" ELSE "text",
     kind |-> IF op \in ListingOps THEN "posts" ELSE op,
     posts |-> listed, detail |-> NoDetail]

\* mutant of direct_except: the tool-calling operation lets the exception out
direct_except_raise(surface, op, message) ==
    IF surface = "rest"
    THEN [status |-> "500", kind |-> "error", posts |-> <<>>,
          detail |-> rest_error_prefix(op) \o message]
    ELSE [status |-> "exception", kind |-> "error", posts |-> <<>>,
          detail |-> message]

\* the `except Exception as e` clause of a single-target handler
direct_except(surface, op, message) ==
    IF surface = "rest"
    THEN [status |-> "500", kind |-> "error", posts |-> <<>>,
          detail |-> rest_error_prefix(op) \o message]
    ELSE [status |-> "text", kind |-> "error", posts |-> <<>>,
          detail |-> tool_error_prefix \o message]

\* mutant of invalid_sort: the 400 is caught by `except Exception` and
\* answered as a 500
invalid_sort_rewrapped(surface) ==
    IF surface = "rest"
    THEN [status |-> "500", kind |-> "invalid_sort", posts |-> <<>>, detail |-> NoDetail]
    ELSE [status |-> "text", kind |-> "invalid_sort", posts |-> <<>>,
          detail |-> NoDetail]

\* the else branch of the front-page handlers: the sort is none of hot, top, new
invalid_sort(surface) ==
    IF surface = "rest"
    THEN [status |-> rest_except([type |-> "HTTPException", status |-> "400"]),
          kind |-> "invalid_sort", posts |-> <<>>, detail |-> NoDetail]
    ELSE [status |-> "text", kind |-> "invalid_sort", posts |-> <<>>,
          detail |-> NoDetail]

DirectIdle ==
    /\ d_pc = "idle"
    /\ d_request = <<>>
    /\ d_client = <<>>
    /\ d_posts = <<>>
    /\ d_response = NoResponse

\* a single-target handler from the call to its first suspension
DirectRequest(surface, op, limit, sort, client) ==
    /\ d_pc = "idle"
    /\ d_request' = [surface |-> surface, op |-> op, limit |-> limit, sort |-> sort]
    /\ d_posts' = <<>>
    /\ IF op = "front" /\ sort \notin {"hot", "top", "new"}
       THEN /\ d_client' = client
            /\ d_response' = invalid_sort(surface)
            /\ d_pc' = "done"
       ELSE /\ d_client' = [client EXCEPT !.calls = @ + 1]
            /\ d_response' = NoResponse
            /\ d_pc' = IF op \in ListingOps THEN "stream" ELSE "fetch"
    /\ UNCHANGED <<aggVars, authVars, bootVars, loadVars, filterVars, fetchVars, sortVars, pairVars>>

\* the client's iterator yields the next submission; the loop body appends it
DirectYield ==
    /\ d_pc = "stream"
    /\ Len(d_posts) < pull(d_client, d_request.limit)
    /\ d_posts' = Append(d_posts, RedditPost(d_client.listing[Len(d_posts) + 1]))
    /\ UNCHANGED <<d_pc, d_request, d_client, d_response>>
    /\ UNCHANGED <<aggVars, authVars, bootVars, loadVars, filterVars, fetchVars, sortVars, pairVars>>

\* the client's iterator is exhausted: the handler returns its list
DirectExhaust ==
    /\ d_pc = "stream"
    /\ Len(d_posts) = pull(d_client, d_request.limit)
    /\ d_response' = direct_result(d_request.surface, d_request.op, d_posts)
    /\ d_pc' = "done"
    /\ UNCHANGED <<d_request, d_client, d_posts>>
    /\ UNCHANGED <<aggVars, authVars, bootVars, loadVars, filterVars, fetchVars, sortVars, pairVars>>

\* an awaited fetch returns: submission.fetch is followed by
\* comment_tree.fetch, fetch_by_name and comment_tree.fetch by the return
DirectFetched ==
    /\ d_pc \in {"fetch", "fetch_comments"}
    /\ IF d_pc = "fetch" /\ d_request.op = "post"
       THEN /\ d_pc' = "fetch_comments"
            /\ d_client' = [d_client EXCEPT !.calls = @ + 1]
            /\ d_response' = NoResponse
       ELSE /\ d_pc' = "done"
            /\ d_client' = d_client
            /\ d_response' = direct_result(d_request.surface, d_request.op, <<>>)
    /\ UNCHANGED <<d_request, d_posts>>
    /\ UNCHANGED <<aggVars, authVars, bootVars, loadVars, filterVars, fetchVars, sortVars, pairVars>>

\* the external client raises, in the iteration or in an awaited fetch
DirectRaise(message) ==
    /\ d_pc \in {"stream", "fetch", "fetch_comments"}
    /\ d_response' = direct_except(d_request.surface, d_request.op, message)
    /\ d_pc' = "done"
    /\ d_client' = [d_client EXCEPT !.raised = <<message>>]
    /\ UNCHANGED <<d_request, d_posts>>
    /\ UNCHANGED <<aggVars, authVars, bootVars, loadVars, filterVars, fetchVars, sortVars, pairVars>>

\* a client: the listing it holds, whether it honours the amount, the
\* message of the exception it has raised (<<>> while it has raised none),
\* and the number of calls the handler has made to it
Clients ==
    {[listing |-> listing, honours |-> honours, raised |-> <<>>, calls |-> 0] :
        listing \in Listings, honours \in BOOLEAN}

DirectNext ==
    \/ \E surface \in Surfaces, op \in DirectOps, limit \in DirectLimits,
          sort \in Sorts, client \in Clients :
            /\ op # "front" => sort = "hot"
            /\ op \in FetchOps => (limit = 0 /\ client.listing = <<>> /\ client.honours)
            /\ DirectRequest(surface, op, limit, sort, client)
    \/ DirectYield
    \/ DirectExhaust
    \/ DirectFetched
    \/ \E message \in ErrorMessages : DirectRaise(message)

(***************************************************************************)
(* Topic map loader: _load_topic_mapping, the same in both modules.  The    *)
(* file is the sequence of its lines, each with its line end.               *)
(***************************************************************************)
MaxLines == 3        \* longest list.txt, in lines

\* str.startswith, str.endswith
startswith(s, prefix) ==
    Len(s) >= Len(prefix) /\ SubSeq(s, 1, Len(prefix)) = prefix

endswith(s, suffix) ==
    Len(s) >= Len(suffix) /\ SubSeq(s, Len(s) - Len(suffix) + 1, Len(s)) = suffix

\* str.replace(old, ''): every occurrence of old, left to right, is removed
RECURSIVE replace(_, _)
replace(s, old) ==
    IF s = <<>> THEN <<>>
    ELSE IF startswith(s, old)
    THEN replace(SubSeq(s, Len(old) + 1, Len(s)), old)
    ELSE <<Head(s)>> \o replace(Tail(s), old)

\* the lines list.txt is made of: two headers, community entries (plain,
\* with blanks and a trailing slash, with an interior slash, without a
\* name), a blank line, a line between two #, and a line of text
Lines ==
    { <<"#", " ", "T", "\n">>,
      <<"#", "U", "\n">>,
      <<"/", "r", "/", "a", "\n">>,
      <<" ", "/", "r", "/", "b", "/", " ", "\n">>,
      <<"/", "r", "/", "a", "/", "b", "\n">>,
      <<"/", "r", "/", "\n">>,
      <<"\n">>,
      <<"#", "c", "#", "\n">>,
      <<"x", "\n">> }

\* a file that declares the topic T twice, with an entry under each header
RepeatedHeaderFiles ==
    { << <<"#", " ", "T", "\n">>,
         <<"/", "r", "/", "a", "\n">>,
         <<"#", " ", "T", "\n">>,
         <<" ", "/", "r", "/", "b", "/", " ", "\n">> >> }

ListFiles == UNION {[1..n -> Lines] : n \in 0..MaxLines} \cup RepeatedHeaderFiles

\* mutant of dict_set_empty: a list the topic has already is kept
dict_set_default(m, topic) ==
    IF \E i \in DOMAIN m : m[i].topic = topic
    THEN m
    ELSE Append(m, [topic |-> topic, subs |-> <<>>])

\* topic_mapping[current_topic] = []
dict_set_empty(m, topic) ==
    IF \E i \in DOMAIN m : m[i].topic = topic
    THEN [i \in DOMAIN m |-> IF m[i].topic = topic
                             THEN [topic |-> topic, subs |-> <<>>] ELSE m[i]]
    ELSE Append(m, [topic |-> topic, subs |-> <<>>])

\* topic_mapping[current_topic].append(subreddit)
dict_append(m, topic, subreddit) ==
    [i \in DOMAIN m |-> IF m[i].topic = topic
                        THEN [topic |-> topic, subs |-> Append(m[i].subs, subreddit)]
                        ELSE m[i]]

\* mutant of load_line: an entry line is taken before the first header too
load_line_eager(st, raw) ==
    LET line == Strip(raw)
    IN  IF startswith(line, <<"#">>) /\ endswith(line, <<"#">>) = FALSE
        THEN LET topic == Strip(Tail(line))
             IN  [current_topic |-> topic,
                  mapping |-> dict_set_empty(st.mapping, topic)]
        ELSE IF startswith(line, <<"/", "r", "/">>)
        THEN LET subreddit == Strip(replace(replace(line, <<"/", "r", "/">>), <<"/">>))
                 m == IF \E i \in DOMAIN st.mapping :
                             st.mapping[i].topic = st.current_topic
                      THEN st.mapping
                      ELSE dict_set_empty(st.mapping, st.current_topic)
             IN  IF subreddit # <<>>
                 THEN [st EXCEPT !.mapping = dict_append(m, st.current_topic, subreddit)]
                 ELSE st
        ELSE st

\* the body of `for line in f`
load_line(st, raw) ==
    LET line == Strip(raw)
    IN  IF startswith(line, <<"#">>) /\ endswith(line, <<"#">>) = FALSE
        THEN LET topic == Strip(Tail(line))
             IN  [current_topic |-> topic,
                  mapping |-> dict_set_empty(st.mapping, topic)]
        ELSE IF startswith(line, <<"/", "r", "/">>) /\ st.current_topic # <<>>
        THEN LET subreddit == Strip(replace(replace(line, <<"/", "r", "/">>), <<"/">>))
             IN  IF subreddit # <<>>
                 THEN [st EXCEPT !.mapping = dict_append(st.mapping, st.current_topic,
                                                         subreddit)]
                 ELSE st
        ELSE st

\* lineno is -1 until the file is open
LoadIdle ==
    /\ list_file = <<>>
    /\ lineno = -1
    /\ current_topic = <<>>
    /\ mapping = <<>>
    /\ loaded = <<>>

\* the loader is called and opens the file
LoadOpen(file) ==
    /\ lineno = -1
    /\ loaded = <<>>
    /\ list_file' = file
    /\ lineno' = 0
    /\ current_topic' = <<>>
    /\ mapping' = <<>>
    /\ loaded' = <<>>
    /\ UNCHANGED <<aggVars, authVars, bootVars, directVars, filterVars, fetchVars, sortVars, pairVars>>

\* one iteration of `for line in f`
LoadLine ==
    /\ lineno >= 0
    /\ loaded = <<>>
    /\ lineno < Len(list_file)
    /\ LET st == load_line([current_topic |-> current_topic, mapping |-> mapping],
                           list_file[lineno + 1])
       IN  /\ current_topic' = st.current_topic
           /\ mapping' = st.mapping
    /\ lineno' = lineno + 1
    /\ UNCHANGED <<list_file, loaded>>
    /\ UNCHANGED <<aggVars, authVars, bootVars, directVars, filterVars, fetchVars, sortVars, pairVars>>

\* the file is read to its end: return topic_mapping
LoadReturn ==
    /\ lineno >= 0
    /\ loaded = <<>>
    /\ lineno = Len(list_file)
    /\ loaded' = <<[result |-> mapping, raised |-> FALSE]>>
    /\ UNCHANGED <<list_file, lineno, current_topic, mapping>>
    /\ UNCHANGED <<aggVars, authVars, bootVars, directVars, filterVars, fetchVars, sortVars, pairVars>>

\* open() or a read raises: except Exception: return {}
LoadRaise ==
    /\ loaded = <<>>
    /\ loaded' = <<[result |-> <<>>, raised |-> TRUE]>>
    /\ UNCHANGED <<list_file, lineno, current_topic, mapping>>
    /\ UNCHANGED <<aggVars, authVars, bootVars, directVars, filterVars, fetchVars, sortVars, pairVars>>

LoadNext ==
    \/ \E file \in ListFiles : LoadOpen(file)
    \/ LoadLine
    \/ LoadReturn
    \/ LoadRaise

(***************************************************************************)
(* The handlers that call the loader: /api/topics, /api/topic-latest and    *)
(* reddit_topic load list.txt anew on every request.  fail_at is the place  *)
(* where reading fails: 0 for open(), k for the read of line k, and         *)
(* Len(file) + 1 when nothing fails.                                        *)
(***************************************************************************)
MaxServeLines == 2   \* longest list.txt a handler's loader call finds

\* the `for line in f` loop over the lines i..n
RECURSIVE load_lines(_, _, _, _)
load_lines(st, file, i, n) ==
    IF i > n THEN st
    ELSE load_lines(load_line(st, file[i]), file, i + 1, n)

\* mutant of _load_topic_mapping: on a failure, what was read is returned
_load_topic_mapping_partial(file, fail_at) ==
    load_lines([current_topic |-> <<>>, mapping |-> <<>>], file, 1,
               Min(Max(fail_at - 1, 0), Len(file))).mapping

\* _load_topic_mapping(): the dict when the file is read to its end, {} from
\* the except clause otherwise
_load_topic_mapping(file, fail_at) ==
    IF fail_at <= Len(file) THEN <<>>
    ELSE load_lines([current_topic |-> <<>>, mapping |-> <<>>], file, 1,
                    Len(file)).mapping

\* the lines of these files: two headers and a community entry
ServeLines ==
    { <<"#", " ", "T", "\n">>,
      <<"#", "U", "\n">>,
      <<"/", "r", "/", "a", "\n">> }

ServeFiles == UNION {[1..n -> ServeLines] : n \in 0..MaxServeLines}

\* get_available_topics
get_available_topics(m) ==
    [status |-> "200", topics |-> Keys(m), total_count |-> Len(Keys(m))]

\* GET /api/topics
TopicsRequest(file, fail_at) ==
    /\ pc = "idle"
    /\ disk = <<>>
    /\ disk' = <<[file |-> file, fail_at |-> fail_at]>>
    /\ topics_response' = <<get_available_topics(_load_topic_mapping(file, fail_at))>>
    /\ UNCHANGED <<aggState, completed, authVars, bootVars, extVars>>

\* one request per history: a topic request for the topic T, or /api/topics
ServeNext ==
    \/ \E surface \in Surfaces, file \in ServeFiles :
          \E fail_at \in 0..(Len(file) + 1) :
            /\ disk = <<>>
            /\ Request(surface, <<"T">>, 1, 2, _load_topic_mapping(file, fail_at))
            /\ disk' = <<[file |-> file, fail_at |-> fail_at]>>
            /\ UNCHANGED <<completed, topics_response>>
    \/ \E i \in DOMAIN tasks, submission \in Submissions :
            TaskYield(i, submission) /\ UNCHANGED histVars
    \/ \E i \in DOMAIN tasks : TaskExhaust(i) /\ UNCHANGED histVars
    \/ \E i \in DOMAIN tasks : TaskRaise(i) /\ UNCHANGED histVars
    \/ Resume /\ UNCHANGED histVars
    \/ \E file \in ServeFiles :
          \E fail_at \in 0..(Len(file) + 1) : TopicsRequest(file, fail_at)

(***************************************************************************)
(* Calls of the content filters.  _is_readable_content reads attributes of  *)
(* the submission and module-level nothing; it assigns only to its locals.  *)
(***************************************************************************)
MaxCalls == 3        \* filter calls in one history

\* mutant of filter_call: the filter rejects a submission it has seen before
filter_call_once(history, surface, submission) ==
    [surface |-> surface, submission |-> submission,
     decision |-> /\ is_readable_content(surface, submission)
                  /\ ~ \E k \in DOMAIN history : history[k].submission = submission,
     after |-> submission]

\* one call of a module's _is_readable_content in a process that has made
\* the calls of history: its argument, its return value, and the submission
\* as the call leaves it
filter_call(history, surface, submission) ==
    [surface |-> surface, submission |-> submission,
     decision |-> is_readable_content(surface, submission),
     after |-> submission]

FilterIdle == filter_calls = <<>>

FilterCall(surface, submission) ==
    /\ Len(filter_calls) < MaxCalls
    /\ filter_calls' = Append(filter_calls,
                              filter_call(filter_calls, surface, submission))
    /\ UNCHANGED <<aggVars, authVars, bootVars, directVars, loadVars, fetchVars, sortVars, pairVars>>

\* link posts whose url and permalink differ in what they contain: an
\* article marker in the url only, an image marker in the url only under a
\* title with a discussion word, and an article marker in the permalink
\* under an image marker in the domain
LinkSamples ==
    { [kind |-> "link", title |-> <<"D">>,
       permalink |-> <<"/", "r", "/", "a", "/", "5">>,
       url |-> <<"h", "t", "t", "p", ":", "/", "/", "x", ".", "i", "o", "/",
                 "N", "e", "w", "s">>,
       domain |-> <<"x", ".", "i", "o">>, created_at |-> <<4>>],
      [kind |-> "link", title |-> <<"A", "s", "k">>,
       permalink |-> <<"/", "r", "/", "a", "/", "6">>,
       url |-> <<"h", "t", "t", "p", ":", "/", "/", "x", ".", "i", "o", "/",
                 "a", ".", "p", "n", "g">>,
       domain |-> <<"x", ".", "i", "o">>, created_at |-> <<5>>],
      [kind |-> "link", title |-> <<"E">>,
       permalink |-> <<"/", "r", "/", "n", "e", "w", "s", "/", "7">>,
       url |-> <<"h", "t", "t", "p", ":", "/", "/", "I", "m", "g", "u", "r", ".",
                 "c", "o", "m", "/", "7">>,
       domain |-> <<"I", "m", "g", "u", "r", ".", "c", "o", "m">>,
       created_at |-> <<6>>] }

\* the submissions the filters are called with
FilterSamples == Submissions \cup LinkSamples

FilterNext ==
    \E surface \in Surfaces, submission \in FilterSamples :
        FilterCall(surface, submission)

(***************************************************************************)
(* One call of _fetch_filtered_posts(subreddit, limit) against a hot        *)
(* listing that never ends by itself.                                       *)
(***************************************************************************)
MaxQuota == 2        \* largest `limit` of a fetcher call

Quotas == 0..MaxQuota

\* what the hot listing yields: a text post, a link both filters disagree
\* on, and a gallery
FetchSamples == {s \in Submissions : s.created_at # <<1>>}

FetchIdle ==
    /\ fetch_pc = "idle"
    /\ fetch_surface = "rest"
    /\ fetch_task = <<>>
    /\ fetched = <<>>
    /\ examined = <<>>

\* the call, up to the first pull from the client
FetchCall(surface, limit) ==
    /\ fetch_pc = "idle"
    /\ fetch_pc' = "loop"
    /\ fetch_surface' = surface
    /\ fetch_task' = NewTask("a", limit)
    /\ fetched' = <<>>
    /\ examined' = <<>>
    /\ UNCHANGED <<aggVars, authVars, bootVars, directVars, loadVars, filterVars, sortVars, pairVars>>

\* the client yields the next submission of the hot listing: one iteration
FetchYield(submission) ==
    /\ fetch_pc = "loop"
    /\ fetch_task' = fetch_step(fetch_surface, fetch_task, submission)
    /\ fetch_pc' = IF fetch_task'.state = "done" THEN "done" ELSE "loop"
    /\ fetched' = Append(fetched, submission)
    /\ examined' = IF fetch_task.count >= fetch_task.limit * OverFetch(fetch_surface)
                   THEN examined
                   ELSE Append(examined, submission)
    /\ UNCHANGED fetch_surface
    /\ UNCHANGED <<aggVars, authVars, bootVars, directVars, loadVars, filterVars, sortVars, pairVars>>

\* the listing is exhausted
FetchExhaust ==
    /\ fetch_pc = "loop"
    /\ fetch_task' = [fetch_task EXCEPT !.state = "done"]
    /\ fetch_pc' = "done"
    /\ UNCHANGED <<fetch_surface, fetched, examined>>
    /\ UNCHANGED <<aggVars, authVars, bootVars, directVars, loadVars, filterVars, sortVars, pairVars>>

\* the client raises while it is pulled
FetchRaise ==
    /\ fetch_pc = "loop"
    /\ fetch_task' = fetch_except(fetch_task)
    /\ fetch_pc' = "done"
    /\ UNCHANGED <<fetch_surface, fetched, examined>>
    /\ UNCHANGED <<aggVars, authVars, bootVars, directVars, loadVars, filterVars, sortVars, pairVars>>

FetchNext ==
    \/ \E surface \in Surfaces, limit \in Quotas : FetchCall(surface, limit)
    \/ \E submission \in FetchSamples : FetchYield(submission)
    \/ FetchExhaust
    \/ FetchRaise

(***************************************************************************)
(* The sort and cut at the end of a topic request, on any merged list.  The *)
(* sort reads created_utc only; the title tells the posts apart (the merge  *)
(* leaves no two posts with the same title).                                *)
(***************************************************************************)
MaxMerged == 3       \* longest merged list that is sorted

SortTitles == {<<"p">>, <<"q">>, <<"r">>, <<"s">>}

SortStamps == {0, 1, 2}

SortPosts == [title : SortTitles, created_utc : SortStamps]

\* the merged lists: no two posts with the same title
MergedLists ==
    {all \in UNION {[1..n -> SortPosts] : n \in 0..Min(MaxMerged, Cardinality(SortTitles))} :
        \A i, k \in DOMAIN all : all[i].title = all[k].title => i = k}

SortLimits == -1..MaxMerged

SortIdle == sorting = <<>>

\* all_posts.sort(key=..., reverse=True); top_posts = all_posts[:limit]
SortCall(all, limit) ==
    /\ sorting = <<>>
    /\ sorting' = <<[all |-> all, limit |-> limit, top |-> top_posts(all, limit)]>>
    /\ UNCHANGED <<aggVars, authVars, bootVars, directVars, loadVars, filterVars,
                   fetchVars, pairVars>>

SortNext == \E all \in MergedLists, limit \in SortLimits : SortCall(all, limit)

(***************************************************************************)
(* Topic requests in flight together in one process.  seen_titles,          *)
(* all_posts and tasks are locals of the handler coroutine, so each request *)
(* has its own; the handlers assign to no module-level name.  A step of the *)
(* process is a step of one task or one handler.                            *)
(***************************************************************************)
MaxPairYield == 2    \* submissions the external client yields to one request

Flights == {1, 2}

\* what the client yields to these requests: two text posts whose titles
\* differ in case and blanks only
PairSamples == {s \in Submissions : s.kind = "text"}

\* max_subreddits of the two requests: the first asks for both communities
\* of the topic, the second for the first of them
PairMaxSubreddits == <<2, 1>>

\* the locals of a handler that has not been called
IdleFlight ==
    [pc |-> "idle", request |-> <<>>, subreddits |-> <<>>, tasks |-> <<>>,
     awaiting |-> 0, seen_titles |-> {}, all_posts |-> <<>>,
     response |-> NoResponse, yielded |-> 0]

PairIdle == flight = [r \in Flights |-> IdleFlight]

\* get_topic_latest / reddit_topic from the call to the first suspension
flight_request(surface, topic, limit, max_subreddits, m) ==
    LET req == [surface |-> surface, topic |-> topic, limit |-> limit,
                max_subreddits |-> max_subreddits]
    IN  IF topic \notin Range(Keys(m))
        THEN [IdleFlight EXCEPT !.pc = "done", !.request = req,
                                !.response = unknown_topic(surface, m)]
        ELSE LET subs == Select(Lookup(m, topic), max_subreddits)
                 created == [i \in 1..Len(subs) |->
                                NewTask(subs[i], Quota(limit, Len(subs)))]
             IN  IF subs = <<>>
                 THEN [IdleFlight EXCEPT !.pc = "done", !.request = req,
                                         !.awaiting = 1,
                                         !.response = result(surface, <<>>, limit, subs)]
                 ELSE [IdleFlight EXCEPT !.pc = "await", !.request = req,
                                         !.subreddits = subs, !.tasks = created,
                                         !.awaiting = 1]

\* mutant of dedup_set: seen_titles is one set of the module
dedup_set_shared(fl, r) == UNION {fl[k].seen_titles : k \in DOMAIN fl}

\* the set the handler of request r tests and extends: its local seen_titles
dedup_set(fl, r) == fl[r].seen_titles

\* the handler of request r resumes: see Resume
flight_resume(fl, r) ==
    LET f == fl[r]
        m == await_tasks(f.tasks, f.awaiting,
                         [seen |-> dedup_set(fl, r), all |-> f.all_posts])
    IN  IF m.awaiting > Len(f.tasks)
        THEN [f EXCEPT !.awaiting = m.awaiting, !.seen_titles = m.seen,
                       !.all_posts = m.all, !.pc = "done",
                       !.response = result(f.request.surface, m.all,
                                           f.request.limit, f.subreddits)]
        ELSE [f EXCEPT !.awaiting = m.awaiting, !.seen_titles = m.seen,
                       !.all_posts = m.all]

PairRequest(r, surface, max_subreddits) ==
    /\ flight[r].pc = "idle"
    /\ flight' = [flight EXCEPT ![r] =
                     flight_request(surface, 1, MaxLimit, max_subreddits,
                                    TopicMap(1, <<"a", "b">>))]
    /\ UNCHANGED <<aggVars, authVars, bootVars, directVars, loadVars, filterVars,
                   fetchVars, sortVars>>

PairYield(r, i, submission) ==
    /\ flight[r].tasks[i].state = "running"
    /\ flight[r].yielded < MaxPairYield
    /\ flight' = [flight EXCEPT ![r].yielded = @ + 1,
                                ![r].tasks[i] =
                                    fetch_step(flight[r].request.surface, @, submission)]
    /\ UNCHANGED <<aggVars, authVars, bootVars, directVars, loadVars, filterVars,
                   fetchVars, sortVars>>

PairExhaust(r, i) ==
    /\ flight[r].tasks[i].state = "running"
    /\ flight' = [flight EXCEPT ![r].tasks[i].state = "done"]
    /\ UNCHANGED <<aggVars, authVars, bootVars, directVars, loadVars, filterVars,
                   fetchVars, sortVars>>

PairRaise(r, i) ==
    /\ flight[r].tasks[i].state = "running"
    /\ flight' = [flight EXCEPT ![r].tasks[i] = fetch_except(@)]
    /\ UNCHANGED <<aggVars, authVars, bootVars, directVars, loadVars, filterVars,
                   fetchVars, sortVars>>

PairResume(r) ==
    /\ flight[r].pc = "await"
    /\ flight[r].tasks[flight[r].awaiting].state = "done"
    /\ flight' = [flight EXCEPT ![r] = flight_resume(flight, r)]
    /\ UNCHANGED <<aggVars, authVars, bootVars, directVars, loadVars, filterVars,
                   fetchVars, sortVars>>

PairNext ==
    \/ \E r \in Flights, surface \in Surfaces :
            PairRequest(r, surface, PairMaxSubreddits[r])
    \/ \E r \in Flights : \E i \in DOMAIN flight[r].tasks, submission \in PairSamples :
            PairYield(r, i, submission)
    \/ \E r \in Flights : \E i \in DOMAIN flight[r].tasks : PairExhaust(r, i)
    \/ \E r \in Flights : \E i \in DOMAIN flight[r].tasks : PairRaise(r, i)
    \/ \E r \in Flights : PairResume(r)

(***************************************************************************)
(* Specifications.  Each takes the other parts in the state they have in a  *)
(* started, idle server with credentials and an API key.                    *)
(***************************************************************************)
Started ==
    /\ env = [REDDIT_CLIENT_ID |-> << <<"v">> >>, REDDIT_CLIENT_SECRET |-> << <<"v">> >>,
              REDDIT_REFRESH_TOKEN |-> << <<"v">> >>, MCP_API_KEY |-> << <<"v">> >>]
    /\ entry = "web_server"
    /\ boot = "serving"
    /\ clients = {"reddit_fetcher", "web_server"}
    /\ mounted = TRUE
    /\ served = FALSE

ExtIdle == DirectIdle /\ LoadIdle /\ FilterIdle /\ FetchIdle /\ SortIdle /\ PairIdle

\* topic aggregation
Init == AggInit /\ api_key = <<107>> /\ AuthIdle /\ Started /\ ExtIdle

Next == AggNext

Spec == Init /\ [][Next]_vars

\* the API-key middleware
InitAuth == AggInit /\ AuthInit /\ Started /\ ExtIdle

SpecAuth == InitAuth /\ [][AuthNext]_vars

\* start-up
InitBoot == AggInit /\ api_key = <<107>> /\ AuthIdle /\ BootInit /\ ExtIdle

SpecBoot == InitBoot /\ [][BootNext]_vars

\* topic aggregation over two communities, with the order the tasks finish in
SpecOrder == Init /\ [][OrderNext]_vars

\* single-community and single-post operations
SpecDirect == Init /\ [][DirectNext]_vars

\* the topic map loader
SpecLoad == Init /\ [][LoadNext]_vars

\* the content filters
SpecFilter == Init /\ [][FilterNext]_vars

\* the per-community fetcher
SpecFetch == Init /\ [][FetchNext]_vars

\* the handlers that call the loader
SpecServe == Init /\ [][ServeNext]_vars

\* topic requests in flight together
SpecPair == Init /\ [][PairNext]_vars

\* the sort and cut
SpecSort == Init /\ [][SortNext]_vars


(***************************************************************************)
(* Properties of the topic aggregation (Spec).                              *)
(***************************************************************************)
Answered == pc = "done"

KnownTopic == request # <<>> /\ request.topic \in Range(Keys(topic_mapping))

UnknownTopic == request # <<>> /\ request.topic \notin Range(Keys(topic_mapping))

\* the communities the map gives for the requested topic
Mapped == Lookup(topic_mapping, request.topic)

\* a title, lowercased and trimmed
NormalizedTitle(title) == Strip(Lower(title))

Sources(posts) == {posts[i].source_subreddit : i \in DOMAIN posts}

\* C1: for a known topic and limit >= 1, the answer holds at most limit posts.
C1_AtMostLimit ==
    (Answered /\ KnownTopic /\ request.limit >= 1)
        => Len(response.posts) <= request.limit

\* C1 witness: two posts were merged and a limit of 1 kept one of them.
C1_Witness ==
    /\ Answered /\ KnownTopic
    /\ request.limit = 1
    /\ Len(all_posts) = 2
    /\ Len(response.posts) = 1

\* C2: for a known topic and max_subreddits >= 1, the returned posts come from
\* at most min(max_subreddits, number of mapped communities) communities, each
\* of them among the first min(max_subreddits, n) mapped ones.
C2_SourcesBounded ==
    (Answered /\ KnownTopic /\ request.max_subreddits >= 1)
        => LET n == Min(request.max_subreddits, Len(Mapped))
           IN  /\ Cardinality(Sources(response.posts)) <= n
               /\ Sources(response.posts) \subseteq Range(SubSeq(Mapped, 1, n))

\* C2 witness: two communities are mapped, one is selected, and it contributed.
C2_Witness ==
    /\ Answered /\ KnownTopic
    /\ request.max_subreddits = 1
    /\ Mapped = <<"a", "b">>
    /\ Sources(response.posts) = {"a"}

\* C3: every normalized title a merged task yielded occurs exactly once in the
\* merged list, and no two posts of the answer share a normalized title.
C3_Dedup ==
    /\ \A i \in DOMAIN tasks :
          (pc # "idle" /\ i < awaiting) =>
            \A k \in DOMAIN tasks[i].posts :
                Cardinality({j \in DOMAIN all_posts :
                    NormalizedTitle(all_posts[j].title)
                        = NormalizedTitle(tasks[i].posts[k].title)}) = 1
    /\ (Answered /\ KnownTopic) =>
          \A i, j \in DOMAIN response.posts :
              i # j => NormalizedTitle(response.posts[i].title)
                         # NormalizedTitle(response.posts[j].title)

\* C3 witness: two different communities each yielded a post with the same
\* normalized title (the titles themselves differ), and both were merged.
C3_Witness ==
    /\ Answered /\ KnownTopic
    /\ Len(tasks) = 2
    /\ tasks[1].subreddit # tasks[2].subreddit
    /\ \E a \in DOMAIN tasks[1].posts, b \in DOMAIN tasks[2].posts :
          /\ tasks[1].posts[a].title # tasks[2].posts[b].title
          /\ NormalizedTitle(tasks[1].posts[a].title)
               = NormalizedTitle(tasks[2].posts[b].title)
    /\ Len(response.posts) = 1

C5_OncePerCommunity ==
    (pc # "idle" /\ KnownTopic /\ request.limit >= 1
        /\ request.max_subreddits >= Len(Mapped)) =>
        \A c \in Range(Mapped) :
            Cardinality({i \in DOMAIN tasks : tasks[i].subreddit = c}) = 1

\* C5 amended: with max_subreddits >= the number of entries of the topic's
\* list, exactly one fetch task is started per entry, in list order (a
\* community listed twice is fetched twice).
C5_OncePerEntry ==
    (pc # "idle" /\ KnownTopic /\ request.max_subreddits >= Len(Mapped)) =>
        /\ Len(tasks) = Len(Mapped)
        /\ \A i \in DOMAIN tasks : tasks[i].subreddit = Mapped[i]

\* C5 witness: two mapped communities, max_subreddits covers them, two tasks.
C5_Witness ==
    /\ pc = "await" /\ KnownTopic
    /\ Len(Mapped) = 2
    /\ request.max_subreddits >= 2
    /\ Len(tasks) = 2

\* C6: when a selected community's fetch failed, the aggregation still answers
\* normally; REST reports every selected community as queried; the tool
\* result counts the communities with a post in it; and, when nothing is
\* truncated, every title a healthy community yielded is in the answer.
C6_FailureAbsorbed ==
    (Answered /\ KnownTopic /\ \E i \in DOMAIN tasks : tasks[i].failed) =>
        /\ response.status \in {"200", "text"}
        /\ response.kind \in {"posts", "no_content"}
        /\ request.surface = "rest" =>
              response.subreddits_queried = <<Len(tasks)>>
        /\ (request.surface = "tool" /\ response.kind = "posts") =>
              response.contributing = <<Cardinality(Sources(response.posts))>>
        /\ \A i \in DOMAIN tasks :
              (~ tasks[i].failed /\ request.limit >= Len(all_posts)) =>
                \A k \in DOMAIN tasks[i].posts :
                    \E j \in DOMAIN response.posts :
                        NormalizedTitle(response.posts[j].title)
                            = NormalizedTitle(tasks[i].posts[k].title)

\* C6 witness: the first community failed without a post, the second is
\* healthy and its post is returned; two communities were queried.
C6_Witness ==
    /\ Answered /\ KnownTopic
    /\ Len(tasks) = 2
    /\ tasks[1].failed /\ tasks[1].posts = <<>>
    /\ ~ tasks[2].failed /\ tasks[2].posts # <<>>
    /\ tasks[1].subreddit # tasks[2].subreddit
    /\ Sources(response.posts) = {tasks[2].subreddit}

\* C7 as stated: for a known topic and limit >= 1, the answer is the explicit
\* "no content found" result exactly when no community contributed a post
\* (stated for requests with max_subreddits >= 1 that selected a community).
C7_NoContentIffEmpty ==
    (Answered /\ KnownTopic /\ request.limit >= 1
        /\ request.max_subreddits >= 1 /\ tasks # <<>>) =>
        (response.kind = "no_content" <=> all_posts = <<>>)

\* C8 as stated: an unknown topic starts no fetch and is answered with the
\* known topics of the map, as a 400 on REST and as text on the tool surface
\* (stated for requests with limit >= 1 and max_subreddits >= 1).
C8_UnknownListsAll ==
    (Answered /\ UnknownTopic /\ request.limit >= 1
        /\ request.max_subreddits >= 1) =>
        /\ tasks = <<>> /\ yielded = 0
        /\ response.kind = "unknown_topic"
        /\ response.status = IF request.surface = "rest" THEN "400" ELSE "text"
        /\ response.listed = Keys(topic_mapping)

\* C8 amended: an unknown topic starts no fetch and is answered with the
\* first ten known topics of the map (all of them when there are at most
\* ten), as a 400 on REST and as text on the tool surface.
C8_UnknownListsTen ==
    (Answered /\ UnknownTopic) =>
        /\ tasks = <<>> /\ yielded = 0
        /\ response.kind = "unknown_topic"
        /\ response.status = IF request.surface = "rest" THEN "400" ELSE "text"
        /\ response.listed
             = SubSeq(Keys(topic_mapping), 1, Min(10, Len(topic_mapping)))

\* C8 witness: REST answers 400 for an unknown topic and lists the topics.
C8_Witness ==
    /\ Answered /\ UnknownTopic
    /\ request.surface = "rest"
    /\ response.status = "400"
    /\ Len(topic_mapping) > 10
    /\ Len(response.listed) = 10

(***************************************************************************)
(* Properties of the API-key middleware (SpecAuth).                         *)
(***************************************************************************)
\* str.encode("utf-8") for code points below U+0800
RECURSIVE encode_utf8(_)
encode_utf8(str) ==
    IF str = <<>> THEN <<>>
    ELSE IF str[1] < 128 THEN <<str[1]>> \o encode_utf8(Tail(str))
    ELSE <<192 + (str[1] \div 64), 128 + (str[1] % 64)>> \o encode_utf8(Tail(str))

\* the request carries the configured key in its X-API-Key header
HeaderIsKey == scope.headers # <<>> /\ scope.headers[1] = encode_utf8(api_key)

\* C9 as stated: an HTTP request whose X-API-Key header is missing, empty or
\* different from the key is answered 401 with a JSON error body and the
\* wrapped application is not called; it is called only for the key (stated
\* for a configured key of ASCII characters).
C9_Rejected401 ==
    (scope # <<>> /\ scope.type = "http" /\ IsAscii(api_key)) =>
        /\ ~ HeaderIsKey =>
              /\ auth_response.status = "401"
              /\ auth_response.body = "json_error"
              /\ app_calls = 0
        /\ app_calls > 0 => HeaderIsKey

(***************************************************************************)
(* Properties of the start-up (SpecBoot).                                   *)
(***************************************************************************)
\* C10 as stated: without credentials neither entry module gets to serve.
C10_FailsAtStartup ==
    CREDS(env) = <<>> => (boot # "serving" /\ ~ served)

(***************************************************************************)
(* Properties of the single-target operations (SpecDirect).                 *)
(***************************************************************************)
DirectAnswered == d_pc = "done"

\* the request is POST /api/hot-threads
HotThreads ==
    d_request # <<>> /\ d_request.surface = "rest" /\ d_request.op = "hot"

\* the posts of an answer are the first submissions of the client's listing,
\* in listing order, each with link = "https://reddit.com" + permalink
ListingPrefix(listed, listing) ==
    /\ Len(listed) <= Len(listing)
    /\ \A i \in DOMAIN listed :
          /\ listed[i].title = listing[i].title
          /\ listed[i].link = reddit_url \o listing[i].permalink

\* C11 as stated: /api/hot-threads with limit L, against a client whose hot
\* listing yields N posts, answers with exactly min(L, N) posts, in listing
\* order, each with link = "https://reddit.com" + permalink (stated for
\* limit >= 1).
C11_ExactlyMinLimit ==
    (DirectAnswered /\ HotThreads /\ d_response.status = "200"
        /\ d_request.limit >= 1) =>
        /\ Len(d_response.posts) = Min(d_request.limit, Len(d_client.listing))
        /\ ListingPrefix(d_response.posts, d_client.listing)

\* C12: when the external client raised during a single-target operation,
\* REST answers 500 with a detail that ends with the client's message, the
\* tool-calling operation returns "An error occurred: " + message and does
\* not raise, and neither answer carries posts; an answer with the status of
\* a success is given only when the client did not raise.
C12_FailureReachesCaller ==
    DirectAnswered =>
        /\ d_client.raised # <<>> =>
              LET message == d_client.raised[1]
              IN  /\ d_response.kind = "error"
                  /\ d_response.posts = <<>>
                  /\ d_request.surface = "rest" =>
                        /\ d_response.status = "500"
                        /\ endswith(d_response.detail, message)
                        /\ Len(d_response.detail) > Len(message)
                  /\ d_request.surface = "tool" =>
                        /\ d_response.status = "text"
                        /\ d_response.detail = tool_error_prefix \o message
        /\ d_response.kind \notin {"error", "invalid_sort"} =>
              d_client.raised = <<>>

\* C12 witness: the client raised after /api/hot-threads had collected a
\* post; the answer is a 500 without posts.
C12_Witness ==
    /\ DirectAnswered /\ HotThreads
    /\ d_client.raised # <<>>
    /\ d_posts # <<>>
    /\ d_response.status = "500"
    /\ d_response.posts = <<>>

(***************************************************************************)
(* Properties of the topic map loader (SpecLoad).                           *)
(***************************************************************************)
\* the loader has read the whole file and returned its dict
LoadReturned == loaded # <<>> /\ ~ loaded[1].raised

\* a line that declares a topic: trimmed, it starts with # and does not end
\* with #
IsHeaderLine(raw) ==
    LET line == Strip(raw)
    IN  line # <<>> /\ Head(line) = "#" /\ line[Len(line)] # "#"

\* the topic a header line declares
HeaderTopic(raw) == Strip(Tail(Strip(raw)))

\* a line that lists a community: trimmed, it starts with /r/
IsEntryLine(raw) ==
    LET line == Strip(raw)
    IN  Len(line) >= 3 /\ SubSeq(line, 1, 3) = <<"/", "r", "/">>

\* the community an entry line lists
EntryName(raw) == Strip(replace(replace(Strip(raw), <<"/", "r", "/">>), <<"/">>))

\* the communities listed by the lines i, i + 1, ... of the file, up to the
\* next header line or the end of the file, in file order
RECURSIVE EntriesFrom(_, _)
EntriesFrom(file, i) ==
    IF i > Len(file) \/ IsHeaderLine(file[i]) THEN <<>>
    ELSE IF IsEntryLine(file[i]) /\ EntryName(file[i]) # <<>>
    THEN <<EntryName(file[i])>> \o EntriesFrom(file, i + 1)
    ELSE EntriesFrom(file, i + 1)

\* the last line of the file that declares the topic
LastHeader(file, topic) ==
    CHOOSE j \in DOMAIN file :
        /\ IsHeaderLine(file[j]) /\ HeaderTopic(file[j]) = topic
        /\ \A k \in DOMAIN file :
              (IsHeaderLine(file[k]) /\ HeaderTopic(file[k]) = topic) => k <= j

\* C13: the dict the loader returns has one key per declared topic and no
\* other key, and the list of a topic holds the communities of the entry
\* lines that follow its header (the last one, when a topic is declared more
\* than once) up to the next header, in file order; blank lines, lines
\* between two #, other lines and entry lines before the first header add
\* nothing.
C13_LoaderMapsHeaders ==
    LoadReturned =>
        LET m == loaded[1].result
        IN  /\ \A i, k \in DOMAIN m : m[i].topic = m[k].topic => i = k
            /\ \A j \in DOMAIN list_file :
                  IsHeaderLine(list_file[j]) =>
                      \E i \in DOMAIN m : m[i].topic = HeaderTopic(list_file[j])
            /\ \A i \in DOMAIN m :
                  /\ \E j \in DOMAIN list_file :
                        /\ IsHeaderLine(list_file[j])
                        /\ HeaderTopic(list_file[j]) = m[i].topic
                  /\ m[i].subs
                       = EntriesFrom(list_file, LastHeader(list_file, m[i].topic) + 1)

\* C13 witness: the file `# T`, `/r/a`, ` /r/b/ ` was loaded as {T: [a, b]}.
C13_Witness ==
    /\ LoadReturned
    /\ list_file = << <<"#", " ", "T", "\n">>,
                      <<"/", "r", "/", "a", "\n">>,
                      <<" ", "/", "r", "/", "b", "/", " ", "\n">> >>
    /\ loaded[1].result = << [topic |-> <<"T">>, subs |-> << <<"a">>, <<"b">> >>] >>

Stamp(title, permalink, subreddit) ==
    [title |-> title, permalink |-> permalink, source_subreddit |-> subreddit]

\* the posts of the tasks 1..n, each with its task's community, in
\* scheduling order and, within a task, in the order the task collected them
RECURSIVE Scheduled(_, _)
Scheduled(ts, n) ==
    IF n = 0 THEN <<>>
    ELSE Scheduled(ts, n - 1)
         \o [k \in DOMAIN ts[n].posts |->
                Stamp(ts[n].posts[k].title, ts[n].posts[k].permalink, ts[n].subreddit)]

\* of a sequence of posts, those with no earlier post of the same normalized
\* title, in order
RECURSIVE FirstWriters(_, _)
FirstWriters(s, n) ==
    IF n = 0 THEN <<>>
    ELSE IF \E j \in 1..(n - 1) :
               NormalizedTitle(s[j].title) = NormalizedTitle(s[n].title)
    THEN FirstWriters(s, n - 1)
    ELSE Append(FirstWriters(s, n - 1), s[n])

\* the merged list, as posts with their sources
Merged ==
    [j \in DOMAIN all_posts |->
        Stamp(all_posts[j].title, all_posts[j].permalink,
              all_posts[j].source_subreddit)]

\* the tasks whose result the handler has merged
MergedTasks == IF awaiting = 0 THEN 0 ELSE awaiting - 1

\* C15: the merged list is, of the posts of the merged tasks in scheduling
\* order and stream order, the first one for each normalized title, each
\* stamped with the community of the task that collected it.
C15_FirstWriterWins ==
    (pc # "idle" /\ KnownTopic) =>
        LET s == Scheduled(tasks, MergedTasks)
        IN  Merged = FirstWriters(s, Len(s))

\* C15 witness: the first community collected "Hi" and then " hi", the
\* second " hi"; the merged list holds the first community's "Hi" only.
C15_Witness ==
    /\ Answered /\ KnownTopic
    /\ Len(tasks) = 2
    /\ tasks[1].subreddit = "a" /\ tasks[2].subreddit = "b"
    /\ Len(tasks[1].posts) = 2 /\ Len(tasks[2].posts) = 1
    /\ tasks[1].posts[1].title = <<"H", "i">>
    /\ tasks[1].posts[2].title = <<" ", "h", "i">>
    /\ tasks[2].posts[1].title = <<" ", "h", "i">>
    /\ Len(all_posts) = 1
    /\ all_posts[1].title = <<"H", "i">>
    /\ all_posts[1].source_subreddit = "a"

\* both tasks of a two-community request hold a post of the same normalized
\* title, and the second task finished before the first
RaceWonBySecond ==
    /\ Answered /\ KnownTopic
    /\ Len(tasks) = 2
    /\ completed = <<2, 1>>
    /\ \E a \in DOMAIN tasks[1].posts, b \in DOMAIN tasks[2].posts :
          NormalizedTitle(tasks[1].posts[a].title)
              = NormalizedTitle(tasks[2].posts[b].title)

\* C16 as stated: the survivor of two posts with equal normalized titles
\* depends on the order in which the fetch tasks finish, so when the second
\* task finishes first its post is the one that survives.
C16_CompletionOrderDecides ==
    RaceWonBySecond =>
        \A j \in DOMAIN all_posts :
            (\E b \in DOMAIN tasks[2].posts :
                NormalizedTitle(tasks[2].posts[b].title)
                    = NormalizedTitle(all_posts[j].title))
                => all_posts[j].source_subreddit = tasks[2].subreddit

\* C16 amended: the survivor does not depend on the order in which the fetch
\* tasks finish: whatever that order, every returned post comes from the
\* first task, in scheduling order, that collected a post of its normalized
\* title.
C16_CompletionOrderIrrelevant ==
    (Answered /\ KnownTopic) =>
        \A j \in DOMAIN response.posts :
            LET holders == {i \in DOMAIN tasks :
                              \E k \in DOMAIN tasks[i].posts :
                                  NormalizedTitle(tasks[i].posts[k].title)
                                      = NormalizedTitle(response.posts[j].title)}
                first == CHOOSE i \in holders : \A h \in holders : i <= h
            IN  /\ holders # {}
                /\ response.posts[j].source_subreddit = tasks[first].subreddit

\* C16 witness: the second task finished first, both tasks hold the same
\* normalized title, and the returned post is the first task's.
C16_Witness ==
    /\ RaceWonBySecond
    /\ Len(response.posts) = 1
    /\ response.posts[1].source_subreddit = tasks[1].subreddit

\* C17 as stated: nothing is in the dedup set or in the merged list while a
\* fetch task of the request is still running.
C17_MergeAfterAllComplete ==
    (pc # "idle" /\ KnownTopic /\ (all_posts # <<>> \/ seen_titles # {})) =>
        \A i \in DOMAIN tasks : tasks[i].state = "done"

\* C17 amended: every selected community has its task before the handler
\* first awaits; the handler merges the result of a task when its await of
\* that task returns, in scheduling order, so what is merged comes from
\* finished tasks while later tasks may still be running; the answer is
\* given only when every task has finished.
C17_MergeAsAwaited ==
    (pc # "idle" /\ KnownTopic) =>
        /\ Len(tasks) = Len(subreddits)
        /\ \A i \in DOMAIN tasks : i < awaiting => tasks[i].state = "done"
        /\ \A j \in DOMAIN all_posts :
              \E i \in DOMAIN tasks :
                  /\ i < awaiting
                  /\ tasks[i].subreddit = all_posts[j].source_subreddit
                  /\ \E k \in DOMAIN tasks[i].posts :
                        tasks[i].posts[k].title = all_posts[j].title
        /\ Answered => \A i \in DOMAIN tasks : tasks[i].state = "done"

\* C17 witness: the first task's post is merged and the handler awaits the
\* second task, which is still running.
C17_Witness ==
    /\ pc = "await" /\ KnownTopic
    /\ Len(tasks) = 2
    /\ awaiting = 2
    /\ all_posts # <<>>
    /\ tasks[2].state = "running"

\* C20 as stated: the selected communities are the first min(max_subreddits,
\* n) entries of the topic's list of n, in list order (none when that number
\* is not positive), for every max_subreddits a request can carry, and REST
\* reports that number as subreddits_queried (stated for limit >= 1).
C20_FirstMinSelected ==
    (pc # "idle" /\ KnownTopic /\ request.limit >= 1) =>
        LET n == Max(0, Min(request.max_subreddits, Len(Mapped)))
        IN  /\ subreddits = SubSeq(Mapped, 1, n)
            /\ (Answered /\ request.surface = "rest") =>
                  response.subreddits_queried = <<n>>

(***************************************************************************)
(* Properties of the per-community fetcher (SpecFetch).                     *)
(***************************************************************************)
\* of a sequence of submissions, those the module's filter accepts, in order
RECURSIVE AcceptedOf(_, _)
AcceptedOf(surface, s) ==
    IF s = <<>> THEN <<>>
    ELSE IF is_readable_content(surface, Head(s))
    THEN <<Head(s)>> \o AcceptedOf(surface, Tail(s))
    ELSE AcceptedOf(surface, Tail(s))

\* the collected posts are the given submissions, one for one and in order
CollectedFrom(collected, s) ==
    /\ Len(collected) = Len(s)
    /\ \A k \in DOMAIN collected :
          /\ collected[k].title = s[k].title
          /\ collected[k].permalink = s[k].permalink

\* C18: a call with quota q collects at most q posts, which are the accepted
\* ones among the submissions the filter was applied to, in listing order;
\* the filter is applied to at most q * K submissions (K = 3 in the tool
\* module, 2 in the REST module), which are the first the listing yielded;
\* the loop is left as soon as q posts are collected, and the submission
\* pulled after q * K were examined is not examined.
C18_FetchBounded ==
    fetch_pc # "idle" =>
        LET q == fetch_task.limit
            K == IF fetch_surface = "tool" THEN 3 ELSE 2
        IN  /\ Len(fetch_task.posts) <= q
            /\ CollectedFrom(fetch_task.posts, AcceptedOf(fetch_surface, examined))
            /\ Len(examined) <= q * K
            /\ Len(examined) <= Len(fetched)
            /\ examined = SubSeq(fetched, 1, Len(examined))
            /\ Len(fetched) <= q * K + 1
            /\ (fetch_pc = "loop" /\ q > 0) => Len(fetch_task.posts) < q

\* C18 witness: the REST fetcher, with quota 1, examined two submissions,
\* accepted none, pulled a third and stopped without examining it.
C18_Witness ==
    /\ fetch_pc = "done"
    /\ fetch_surface = "rest"
    /\ fetch_task.limit = 1
    /\ ~ fetch_task.failed
    /\ Len(examined) = 2
    /\ Len(fetched) = 3
    /\ fetch_task.posts = <<>>

\* C19: when the client raised while the listing was streamed, the call has
\* returned (no exception leaves it), and what it returned are the accepted
\* ones among the submissions yielded before the failure, in order.
C19_PartialOnFailure ==
    (fetch_pc # "idle" /\ fetch_task.failed) =>
        /\ fetch_pc = "done"
        /\ fetch_task.state = "done"
        /\ examined = fetched
        /\ CollectedFrom(fetch_task.posts, AcceptedOf(fetch_surface, fetched))

\* C19 witness: with quota 2, the client raised after one accepted and one
\* rejected submission; the accepted one is returned.
C19_Witness ==
    /\ fetch_pc = "done"
    /\ fetch_task.failed
    /\ fetch_task.limit = 2
    /\ Len(fetched) = 2
    /\ Len(fetch_task.posts) = 1

(***************************************************************************)
(* Properties of the sort and cut (SpecSort).                               *)
(***************************************************************************)
\* the place of a post in a list without repeated titles
PlaceIn(all, p) == CHOOSE i \in DOMAIN all : all[i] = p

\* p comes before q in the stable descending order of all
StablyBefore(all, p, q) ==
    \/ p.created_utc > q.created_utc
    \/ p.created_utc = q.created_utc /\ PlaceIn(all, p) < PlaceIn(all, q)

\* C21: the returned posts are posts of the merged list, each once, in
\* descending order of created_utc with posts of equal created_utc in their
\* merge order; every post left out comes after every returned post in that
\* order (the returned posts are a prefix of the stably sorted list); and
\* the prefix has the length of all_posts[:limit].
C21_StableSortPrefix ==
    sorting # <<>> =>
        LET all == sorting[1].all
            top == sorting[1].top
            limit == sorting[1].limit
        IN  /\ \A k \in DOMAIN top : top[k] \in Range(all)
            /\ \A k, l \in DOMAIN top : k < l => StablyBefore(all, top[k], top[l])
            /\ \A p \in Range(all) \ Range(top) :
                  \A k \in DOMAIN top : StablyBefore(all, top[k], p)
            /\ Len(top) = IF limit >= 0 THEN Min(limit, Len(all))
                          ELSE Max(0, Len(all) + limit)

\* C21 witness: the merged list is p, q, r with created_utc 1, 2, 1 and the
\* limit is 2: the sort moves q to the front, and the cut falls between the
\* two posts with equal created_utc and keeps p, the one merged first.
C21_Witness ==
    /\ sorting # <<>>
    /\ sorting[1].limit = 2
    /\ sorting[1].all = << [title |-> <<"p">>, created_utc |-> 1],
                           [title |-> <<"q">>, created_utc |-> 2],
                           [title |-> <<"r">>, created_utc |-> 1] >>
    /\ sorting[1].top = << [title |-> <<"q">>, created_utc |-> 2],
                           [title |-> <<"p">>, created_utc |-> 1] >>

(***************************************************************************)
(* Creation times on the two surfaces (Spec).                               *)
(***************************************************************************)
\* the submission with this permalink
SubmissionAt(permalink) == CHOOSE x \in Submissions : x.permalink = permalink

\* the creation time of the submission with this permalink, 0 when it has none
RealTime(permalink) ==
    LET submission == SubmissionAt(permalink)
    IN  IF submission.created_at # <<>> THEN submission.created_at[1] ELSE 0

C23_PositiveParameters ==
    (Answered /\ KnownTopic /\ tasks # <<>>) =>
        /\ request.limit >= 1
        /\ request.max_subreddits >= 1

(***************************************************************************)
(* The readability filter of web_server (SpecFilter).                       *)
(***************************************************************************)
\* the url and the domain of a submission, joined and lowercased
UrlAndDomain(submission) == Lower(submission.url \o <<" ">> \o submission.domain)

\* the decision over url, domain and title, in the order image or video
\* marker, article marker, discussion word
DecisionByUrl(submission) ==
    IF \E pattern \in image_video_patterns : Contains(UrlAndDomain(submission), pattern)
    THEN FALSE
    ELSE IF \E pattern \in readable_patterns : Contains(UrlAndDomain(submission), pattern)
    THEN TRUE
    ELSE \E word \in discussion_words : Contains(Lower(submission.title), word)

\* C24 as stated: web_server's filter includes every text post, and decides
\* a link post over its url and domain: excluded with an image or video
\* marker, else included with an article marker, else included when the
\* title holds a discussion word, else excluded.
C24_DecidedByUrl ==
    \A k \in DOMAIN filter_calls :
        filter_calls[k].surface = "rest" =>
            LET submission == filter_calls[k].submission
            IN  /\ submission.kind = "text" => filter_calls[k].decision
                /\ submission.kind = "link" =>
                      filter_calls[k].decision = DecisionByUrl(submission)

(***************************************************************************)
(* Community entries of the topic map (SpecLoad).                           *)
(***************************************************************************)
\* a string without the slashes at its end
RECURSIVE WithoutTrailingSlash(_)
WithoutTrailingSlash(s) ==
    IF s # <<>> /\ s[Len(s)] = "/"
    THEN WithoutTrailingSlash(SubSeq(s, 1, Len(s) - 1))
    ELSE s

\* an entry line without its /r/ prefix and without a trailing slash, the
\* rest as it is
PrefixAndTrailingStripped(raw) ==
    LET line == Strip(raw)
    IN  WithoutTrailingSlash(SubSeq(line, 4, Len(line)))

\* the lines i, i + 1, ... of the file up to the next header, each entry
\* line read that way, the empty ones left out
RECURSIVE StrippedEntriesFrom(_, _)
StrippedEntriesFrom(file, i) ==
    IF i > Len(file) \/ IsHeaderLine(file[i]) THEN <<>>
    ELSE IF IsEntryLine(file[i]) /\ PrefixAndTrailingStripped(file[i]) # <<>>
    THEN <<PrefixAndTrailingStripped(file[i])>> \o StrippedEntriesFrom(file, i + 1)
    ELSE StrippedEntriesFrom(file, i + 1)

\* C25 as stated: the list of a topic holds, for each entry line under its
\* header, the line without the leading /r/ and without a trailing slash,
\* otherwise unchanged (an interior slash stays), and nothing for a line of
\* which nothing remains.
C25_EntryKeptUnchanged ==
    LoadReturned =>
        \A i \in DOMAIN loaded[1].result :
            loaded[1].result[i].subs
                = StrippedEntriesFrom(list_file,
                                      LastHeader(list_file, loaded[1].result[i].topic) + 1)

(***************************************************************************)
(* A list.txt that cannot be read (SpecServe).                              *)
(***************************************************************************)
\* the handler's loader call failed, at open() or at a read
LoadFailed == disk # <<>> /\ disk[1].fail_at <= Len(disk[1].file)

\* C26: when the loader call of a handler fails, at open() or part-way
\* through the file, the handler goes on with an empty map: /api/topics
\* answers 200 with no topics and total_count 0, and a topic request is
\* answered as an unknown topic (400 on REST, a text on the tool surface,
\* never a 500) that lists no available topic, without a fetch task.
C26_FailureGivesEmptyMap ==
    LoadFailed =>
        /\ topics_response # <<>> =>
              topics_response[1] = [status |-> "200", topics |-> <<>>, total_count |-> 0]
        /\ pc # "idle" =>
              /\ topic_mapping = <<>>
              /\ pc = "done"
              /\ tasks = <<>>
              /\ response.kind = "unknown_topic"
              /\ response.listed = <<>>
              /\ response.status = IF request.surface = "rest" THEN "400" ELSE "text"

\* C26 witness: list.txt is `# T`, `/r/a` and the read of its second line
\* fails, after the topic T was entered in the dict; the REST request for T
\* is answered 400, unknown topic.
C26_Witness ==
    /\ LoadFailed
    /\ disk[1].file = << <<"#", " ", "T", "\n">>, <<"/", "r", "/", "a", "\n">> >>
    /\ disk[1].fail_at = 2
    /\ pc = "done"
    /\ request.surface = "rest"
    /\ request.topic = <<"T">>
    /\ response.status = "400"
    /\ response.kind = "unknown_topic"

(***************************************************************************)
(* Topic requests in flight together (SpecPair).                            *)
(***************************************************************************)
\* what a request answers when it runs alone and its tasks return what
\* these tasks returned: the merge from an empty dedup set and an empty list
AloneResponse(f) ==
    LET m == await_tasks(f.tasks, 1, [seen |-> {}, all |-> <<>>])
    IN  result(f.request.surface, m.all, f.request.limit, f.subreddits)

\* C27: whatever the other request does in between, a request that has
\* answered has answered what it answers alone against the same results of
\* its tasks, and its dedup set holds the titles of its own merged list only.
C27_NoInterference ==
    \A r \in Flights :
        /\ flight[r].seen_titles
             = {title_key(flight[r].all_posts[k]) : k \in DOMAIN flight[r].all_posts}
        /\ flight[r].pc = "done" => flight[r].response = AloneResponse(flight[r])

\* C27 witness: the first request has merged the "Hi" of its first community
\* and awaits its second, while the second request has answered with a post
\* of the same normalized title.
C27_Witness ==
    /\ flight[1].pc = "await"
    /\ flight[1].awaiting = 2
    /\ Len(flight[1].all_posts) = 1
    /\ flight[2].pc = "done"
    /\ Len(flight[2].response.posts) = 1
    /\ NormalizedTitle(flight[2].response.posts[1].title)
         = NormalizedTitle(flight[1].all_posts[1].title)

(***************************************************************************)
(* A front-page request with an unknown sort (SpecDirect).                  *)
(***************************************************************************)
InvalidSortRequest ==
    /\ d_request # <<>>
    /\ d_request.op = "front"
    /\ d_request.sort \notin {"hot", "top", "new"}

\* C28: a front-page request whose sort is none of hot, top, new is answered
\* at once, with no call to the external client and no post: 400 on REST,
\* the "Invalid sort method" text on the tool surface; and a front-page
\* request with one of the three sorts does call the client.
C28_InvalidSortRejected ==
    /\ InvalidSortRequest =>
          /\ d_pc = "done"
          /\ d_client.calls = 0
          /\ d_client.raised = <<>>
          /\ d_posts = <<>>
          /\ d_response.kind = "invalid_sort"
          /\ d_response.posts = <<>>
          /\ d_response.status = IF d_request.surface = "rest" THEN "400" ELSE "text"
    /\ (d_request # <<>> /\ d_request.op = "front" /\ ~ InvalidSortRequest) =>
          /\ d_client.calls >= 1
          /\ d_response # NoResponse => d_response.kind # "invalid_sort"

\* C28 witness: POST /api/front-page with sort "best" against a client that
\* holds posts was answered 400.
C28_Witness ==
    /\ InvalidSortRequest
    /\ d_request.surface = "rest"
    /\ d_request.sort = "best"
    /\ d_client.listing # <<>>
    /\ d_response.status = "400"

(***************************************************************************)
(* What the server says about the tool-calling endpoint (SpecBoot).         *)
(***************************************************************************)
\* the REST server is up, started with its three credentials
WebServing == boot = "serving" /\ entry = "web_server" /\ Len(CREDS(env)) = 3

\* C29 as stated: in a REST server that is up, /mcp is mounted exactly when
\* /mcp-info reports mcp_enabled = true and lists the tools, and exactly when
\* the root endpoint gives "/mcp" as the endpoint.
C29_InfoAgreesWithMount ==
    WebServing =>
        /\ mounted <=> mcp_info(env).mcp_enabled
        /\ mounted <=> mcp_info(env).tools_available # <<>>
        /\ mounted <=> root(env).streamable_http = "/mcp"

(***************************************************************************)
(* A topic declared more than once (SpecLoad).                              *)
(***************************************************************************)
\* the lines of the file that declare the topic
Occurrences(file, topic) ==
    {j \in DOMAIN file : IsHeaderLine(file[j]) /\ HeaderTopic(file[j]) = topic}

\* the entry lines that stand under the header at line j
EntryLinesUnder(file, j) ==
    {k \in DOMAIN file :
        /\ k > j
        /\ IsEntryLine(file[k]) /\ EntryName(file[k]) # <<>>
        /\ \A h \in (j + 1)..k : ~ IsHeaderLine(file[h])}

\* C30: a topic that the file declares more than once has one key in the
\* dict; its list has one element for each entry line under the last of its
\* headers, in file order, and none for the entry lines under the earlier
\* ones.
C30_LastHeaderWins ==
    LoadReturned =>
        \A j \in DOMAIN list_file :
            (IsHeaderLine(list_file[j])
                /\ Cardinality(Occurrences(list_file, HeaderTopic(list_file[j]))) >= 2) =>
                LET topic == HeaderTopic(list_file[j])
                    m == loaded[1].result
                    keys == {i \in DOMAIN m : m[i].topic = topic}
                    last == CHOOSE h \in Occurrences(list_file, topic) :
                                \A g \in Occurrences(list_file, topic) : g <= h
                IN  /\ Cardinality(keys) = 1
                    /\ \A i \in keys :
                          /\ Len(m[i].subs)
                               = Cardinality(EntryLinesUnder(list_file, last))
                          /\ m[i].subs = EntriesFrom(list_file, last + 1)

\* C30 witness: the file `# T`, `/r/a`, `# T`, ` /r/b/ ` was loaded as
\* {T: [b]}.
C30_Witness ==
    /\ LoadReturned
    /\ list_file \in RepeatedHeaderFiles
    /\ loaded[1].result = << [topic |-> <<"T">>, subs |-> << <<"b">> >>] >>

====
